---- MODULE Spec2Model ----
(***************************************************************************)
(* State-machine model of the AI microservice's backend adapters           *)
(* (app/gemini_service.py, app/groq_service.py, app/grok_service.py).      *)
(*                                                                         *)
(* One adapter instance serves one request at a time.  Every upstream      *)
(* completion call is one step: the step draws the upstream outcome (an    *)
(* exception or a reply) from a bounded set and runs the handler's code    *)
(* up to its next suspension point (the next upstream call, a sleep, or    *)
(* the return).  `log` records the upstream calls and the sleeps of the    *)
(* request being served, in order.                                         *)
(***************************************************************************)
EXTENDS Integers, Sequences, FiniteSets, TLC

VARIABLES
    provider,   \* the adapter selected at startup: "gemini", "groq" or "grok"
    op,         \* the adapter method being served: "none", "extract", ...
    pc,         \* position inside the method
    attempt,    \* loop variable `attempt` of the retry loop being executed
    intent,     \* value returned by classify_intent ("<unset>" before it returns)
    log,        \* upstream calls and sleeps of this request, in order
    result,     \* value returned by the method ([kind |-> "none"] before)
    request,    \* the list argument of the method (history, trades, messages)
    messages,   \* generate_chat_response: the turns built for the model
    tool_calls, \* generate_chat_response: tool calls of the first completion
    tool_i,     \* generate_chat_response: index of the tool call being served
    validated,  \* extract_trade_from_text: model_validate_json has been called
    response,   \* what the HTTP endpoint answers ([status |-> 0] before)
    env,        \* the process environment: AI_PROVIDER and the selected key
    proc,       \* the process: "starting", "running", "exited" or "crashed"
    instances,  \* how many times the adapter class has been constructed
    trade_history, \* generate_chat_response: the trade_history argument
    context,    \* generate_chat_response: the trades put into the prompt
    invoked,    \* the adapter methods the endpoint has called, with their text
    chat_result, \* process_chat: what generate_chat_response returned
    other,      \* the suspended handler of a second request in flight
    NEWS_API_KEY, \* news_api_tool.py: is the module's NEWS_API_KEY set?
    news_call   \* fetch_stock_news: position, query, HTTP calls made, value

procvars == <<env, proc, instances>>

newsvars == <<NEWS_API_KEY, news_call>>

vars_but_news_call ==
    <<provider, op, pc, attempt, intent, log, result, request, messages,
      tool_calls, tool_i, validated, response, procvars, trade_history,
      context, invoked, chat_result, other>>

vars == <<provider, op, pc, attempt, intent, log, result, request, messages,
          tool_calls, tool_i, validated, response, procvars, trade_history,
          context, invoked, chat_result, other, newsvars>>

\* The state only generate_chat_response writes.
chatvars == <<messages, tool_calls, tool_i>>

Providers == {"gemini", "groq", "grok"}

-----------------------------------------------------------------------------
(* Program constants.                                                       *)

\* Faulty variant of CLASSIFY_MAX_RETRIES: one attempt more.
CLASSIFY_MAX_RETRIES_more == 2 + 1

\* gemini_service.py: MAX_RETRIES of classify_intent
CLASSIFY_MAX_RETRIES == 2
\* gemini_service.py: MAX_RETRIES of extract_trade_from_text
EXTRACT_MAX_RETRIES == 3
\* gemini_service.py: asyncio.sleep(1) between classification attempts
CLASSIFY_SLEEP == 1

-----------------------------------------------------------------------------
(* Upstream outcomes.                                                       *)

\* Markers for a JSON key that is missing and for the JSON value null.
Absent == "<absent>"
JsonNull == "<null>"
Unset == "<unset>"

\* Exceptions an upstream call can raise.  "api503" is a google.genai
\* APIError whose text contains "503"; "apiOther" is an APIError whose text
\* does not; "other" is any other Exception (network error, timeout, ...).
Errors == {"api503", "apiOther", "other"}

Raise(e) == [k |-> "raise", err |-> e]
Reply(f, b) == [k |-> "reply", fenced |-> f, body |-> b]

\* The five category tokens (IntentResponse.intent).
IntentTokens == {"LOG_TRADE", "REVIEW_ANALYSIS", "NEWS_MARKET", "PLAN_STRATEGY", "OTHER"}

\* Strings an upstream classifier may put in the "intent" field.
IntentStrings == IntentTokens \cup {"log_trade", "Other", "greeting"}

\* str.upper() on the strings above.
Upper(s) ==
    CASE s = "log_trade" -> "LOG_TRADE"
      [] s = "Other" -> "OTHER"
      [] s = "greeting" -> "GREETING"
      [] OTHER -> s

\* Texts of a classification completion: no text at all (None), text that is
\* not JSON, a JSON array, or a JSON object whose "intent" is missing, null
\* or a string.
ClassifyBodies ==
    {[j |-> "none"], [j |-> "invalid"], [j |-> "array"]}
    \cup {[j |-> "object", intent |-> v] : v \in {Absent, JsonNull} \cup IntentStrings}

ClassifyResponses ==
    {Raise(e) : e \in Errors}
    \cup {Reply(FALSE, b) : b \in ClassifyBodies}
    \cup {Reply(TRUE, [j |-> "object", intent |-> v]) : v \in {"LOG_TRADE", "NEWS_MARKET"}}

\* Does the adapter strip a ```json ... ``` fence before parsing?  Only the
\* Grok adapter does (content.split("```")[1].replace("json", "").strip()).
StripsFence(p) == p = "grok"

\* json.loads of a completion text as adapter p reads it: TRUE iff it parses.
JsonLoads(p, r) ==
    /\ r.body.j \in {"array", "object", "literal", "sentinel"}
    /\ (r.body.j = "literal" => r.body.lit = "null")
    /\ (r.fenced => StripsFence(p))

\* Faulty variant of ClassifyParse: str(data.get("intent", "OTHER")).upper(),
\* which turns a null intent into the value "NONE" instead of raising.
ClassifyParse_strOfNull(p, r) ==
    IF r.k = "raise" \/ ~JsonLoads(p, r) \/ r.body.j # "object"
    THEN [ok |-> FALSE, value |-> Unset]
    ELSE IF r.body.intent = Absent
         THEN [ok |-> TRUE, value |-> "OTHER"]
         ELSE IF r.body.intent = JsonNull
              THEN [ok |-> TRUE, value |-> "NONE"]
              ELSE [ok |-> TRUE, value |-> Upper(r.body.intent)]

\* data.get("intent", "OTHER").upper() after json.loads(text): the value
\* returned, or a raised exception (ok = FALSE) when the text is missing or
\* not JSON, the JSON is not an object, or the intent is not a string.
ClassifyParse(p, r) ==
    IF r.k = "raise" \/ ~JsonLoads(p, r) \/ r.body.j # "object" \/ r.body.intent = JsonNull
    THEN [ok |-> FALSE, value |-> Unset]
    ELSE IF r.body.intent = Absent
         THEN [ok |-> TRUE, value |-> Upper("OTHER")]
         ELSE [ok |-> TRUE, value |-> Upper(r.body.intent)]

-----------------------------------------------------------------------------
(* TradeCreate (app/models.py) and the texts of an extraction completion.   *)

Required == {"ticker", "entry_date", "entry_price", "quantity"}
Optional == {"exit_date", "exit_price", "notes"}
TradeFields == Required \cup Optional

\* A JSON value whose type the field does not accept.
Bad == "<bad>"
\* A notes text that holds the words "null" and "error".
NotesWords == "no error, null risk"

\* A JSON object with the given values for the TradeCreate keys.
Obj(t, d, p, q, xd, xp, n) ==
    [j |-> "object",
     f |-> [ticker |-> t, entry_date |-> d, entry_price |-> p, quantity |-> q,
            exit_date |-> xd, exit_price |-> xp, notes |-> n]]

OpenTrade == Obj("TSLA", "2025-01-02", "200", "10", Absent, Absent, Absent)
ClosedTrade == Obj("AAPL", "2025-01-02", "150", "5", "2025-01-03", "160", "scalp")
NullOptionals == Obj("TSLA", "2025-01-02", "200", "10", JsonNull, JsonNull, JsonNull)
WordyNotes == Obj("NVDA", "2025-01-02", "500", "5", Absent, Absent, NotesWords)
NoQuantity == Obj("TSLA", "2025-01-02", "200", Absent, Absent, Absent, Absent)
NoTicker == Obj(Absent, "2025-01-02", "200", "10", Absent, Absent, Absent)
BadPrice == Obj("TSLA", "2025-01-02", Bad, "10", Absent, Absent, Absent)

\* The texts the literal "null"/"none" can arrive as.
Literals == {"null", "None", " NULL "}

\* text.strip().lower() on the literals above.
StripLower(s) ==
    CASE s = "None" -> "none"
      [] s = " NULL " -> "null"
      [] OTHER -> s

\* Texts of an extraction completion: None, "", a null/none literal, text
\* that is not JSON, the {"error": "null"} sentinel the Groq prompt asks for,
\* or a JSON object.
ExtractBodies ==
    {[j |-> "none"], [j |-> "empty"], [j |-> "invalid"], [j |-> "sentinel"]}
    \cup {[j |-> "literal", lit |-> l] : l \in Literals}
    \cup {OpenTrade, ClosedTrade, NullOptionals, WordyNotes, NoQuantity, NoTicker, BadPrice}

ExtractResponses ==
    {Raise(e) : e \in Errors}
    \cup {Reply(FALSE, b) : b \in ExtractBodies}
    \cup {Reply(TRUE, OpenTrade)}

\* "null" in content.lower()
ContainsNull(b) ==
    \/ b.j = "sentinel"
    \/ b.j = "literal" /\ StripLower(b.lit) = "null"
    \/ b.j = "object" /\ (\E k \in TradeFields : b.f[k] = JsonNull \/ b.f[k] = NotesWords)

\* "error" in content.lower()
ContainsError(b) ==
    \/ b.j = "sentinel"
    \/ b.j = "object" /\ (\E k \in TradeFields : b.f[k] = NotesWords)

\* Faulty variant of model_validate_json: every TradeCreate field Optional,
\* so only the types are checked.
model_validate_json_allOptional(p, r) ==
    IF /\ JsonLoads(p, r)
       /\ r.body.j = "object"
       /\ \A k \in TradeFields : r.body.f[k] # Bad
    THEN [ok |-> TRUE,
          rec |-> [k \in TradeFields |->
                     IF r.body.f[k] = Absent THEN JsonNull ELSE r.body.f[k]]]
    ELSE [ok |-> FALSE, rec |-> << >>]

\* TradeCreate.model_validate_json(text) as adapter p reads the text: the
\* record (ok = TRUE), or a raised ValidationError (ok = FALSE) when the text
\* is not a JSON object, a required key is missing or null, or a value has the
\* wrong type.  A missing optional key becomes None.
model_validate_json(p, r) ==
    IF /\ JsonLoads(p, r)
       /\ r.body.j = "object"
       /\ \A k \in Required : r.body.f[k] \notin {Absent, JsonNull, Bad}
       /\ \A k \in Optional : r.body.f[k] # Bad
    THEN [ok |-> TRUE,
          rec |-> [k \in TradeFields |->
                     IF r.body.f[k] = Absent THEN JsonNull ELSE r.body.f[k]]]
    ELSE [ok |-> FALSE, rec |-> << >>]

NoResult == [kind |-> "none"]
Null == [kind |-> "null"]
Trade(rec) == [kind |-> "trade", rec |-> rec]

-----------------------------------------------------------------------------
(* Log of the request being served.                                         *)

CallEv(what, r) == [ev |-> "call", what |-> what, r |-> r, secs |-> 0]
SleepEv(what, s) == [ev |-> "sleep", what |-> what, r |-> << >>, secs |-> s]

\* The upstream outcomes of the calls of one kind, in order.
Calls(what) ==
    LET sel == SelectSeq(log, LAMBDA e : e.ev = "call" /\ e.what = what)
    IN  [i \in 1..Len(sel) |-> sel[i].r]

\* The sleeps performed by one retry loop, in order.
Delays(what) ==
    LET sel == SelectSeq(log, LAMBDA e : e.ev = "sleep" /\ e.what = what)
    IN  [i \in 1..Len(sel) |-> sel[i].secs]

-----------------------------------------------------------------------------
(* classify_intent and extract_trade_from_text.                             *)

\* Faulty variant of Gate: only the intent OTHER skips the extraction.
Gate_unlessOther(i) == i # "OTHER"

\* `if intent != "LOG_TRADE": return None`
Gate(i) == i = "LOG_TRADE"

\* Faulty variants of ShouldRetry: one retry too few; a retry on every
\* APIError; a retry on the first attempt only.
ShouldRetry_oneLess(e, a, max) == e = "api503" /\ a < max - 2

ShouldRetry_anyApiError(e, a, max) == e \in {"api503", "apiOther"} /\ a < max - 1

ShouldRetry_firstOnly(e, a, max) == e = "api503" /\ a < 1

\* Faulty variant of ShouldRetry: the last attempt sleeps as well.
ShouldRetry_lastToo(e, a, max) == e = "api503" /\ a < max

\* `"503" in str(e) and attempt < MAX_RETRIES - 1` under `except APIError`
ShouldRetry(e, a, max) == e = "api503" /\ a < max - 1

\* Faulty variant of Backoff: a linear delay.
Backoff_linear(a) == 2 * a

\* `await asyncio.sleep(2 ** attempt)`
Backoff(a) == 2 ^ a

\* Faulty variant of gemini_validates: only the literal null is set aside.
gemini_validates_nullOnly(r) ==
    /\ r.k = "reply"
    /\ r.body.j \notin {"none", "empty"}
    /\ ~(r.body.j = "literal" /\ ~r.fenced /\ StripLower(r.body.lit) = "null")

\* Gemini: does the attempt reach TradeCreate.model_validate_json?
\* `if response.text and response.text.strip().lower() not in ["null", "none"]`
gemini_validates(r) ==
    /\ r.k = "reply"
    /\ r.body.j \notin {"none", "empty"}
    /\ ~(r.body.j = "literal" /\ ~r.fenced
         /\ StripLower(r.body.lit) \in {"null", "none"})

\* Gemini: the value extract_trade_from_text returns for an upstream outcome
\* that ends its retry loop.
gemini_extract_value(r) ==
    IF gemini_validates(r)
    THEN LET v == model_validate_json("gemini", r)
         IN  IF v.ok THEN Trade(v.rec) ELSE Null
    ELSE Null

\* Groq: does the call reach TradeCreate.model_validate_json?  content.lower()
\* raises on None; the sentinel test returns None before the validation.
groq_validates(r) ==
    /\ r.k = "reply"
    /\ r.body.j # "none"
    /\ ~(ContainsNull(r.body) /\ ContainsError(r.body))

\* Groq: the value extract_trade_from_text returns for an upstream outcome.
groq_extract_value(r) ==
    IF groq_validates(r)
    THEN LET v == model_validate_json("groq", r)
         IN  IF v.ok THEN Trade(v.rec) ELSE Null
    ELSE Null

\* Grok: does the call reach TradeCreate.model_validate_json?
\* response.content.strip() raises on None; `if "null" not in content.lower()`.
grok_validates(r) ==
    /\ r.k = "reply"
    /\ r.body.j # "none"
    /\ ~ContainsNull(r.body)

\* Grok: the value extract_trade_from_text returns for an upstream outcome.
grok_extract_value(r) ==
    IF grok_validates(r)
    THEN LET v == model_validate_json("grok", r)
         IN  IF v.ok THEN Trade(v.rec) ELSE Null
    ELSE Null

\* The text of the request: request.user_message, request.text.
user_message == "current"

\* One call of an adapter method by an endpoint, with the text it is given.
Invocation(method, text) == [method |-> method, text |-> text]

\* main.py extract_trade_endpoint once extract_trade_from_text has returned v.
extract_trade_endpoint(v) == [status |-> 200, trade_extracted |-> v]

\* main.py process_chat once both methods have returned: AIMessageResponse
\* takes the chat result's message and is_grounded and the extractor's value;
\* a message that is None makes it raise, which becomes an HTTPException
\* with status 500.
process_chat_response(chat, v) ==
    IF chat.message = JsonNull THEN [status |-> 500]
    ELSE [status |-> 200, message |-> chat.message, is_grounded |-> chat.is_grounded,
          trade_extracted |-> v]

\* What the endpoint being served answers once extract_trade_from_text has
\* returned v.
Respond(v) ==
    IF op = "process" THEN process_chat_response(chat_result, v)
    ELSE extract_trade_endpoint(v)

\* A request for /ai/extract-trade arrives: extract_trade_from_text starts by
\* awaiting classify_intent.
StartExtract ==
    /\ pc = "idle"
    /\ op' = "extract"
    /\ pc' = "classify"
    /\ attempt' = 0
    /\ request' = << >>
    /\ invoked' = <<Invocation("extract_trade_from_text", user_message)>>
    /\ UNCHANGED <<provider, newsvars, procvars, other, trade_history, context, chat_result, validated, response, intent, log, result, chatvars>>

\* classify_intent returns v to extract_trade_from_text, which returns None
\* unless the intent is LOG_TRADE and otherwise enters its extraction step.
ReturnIntent(v) ==
    /\ intent' = v
    /\ attempt' = 0
    /\ IF Gate(v)
       THEN pc' = "extract" /\ result' = result /\ response' = response
       ELSE pc' = "done" /\ result' = Null /\ response' = Respond(Null)

\* Gemini classify_intent: one attempt of its loop of CLASSIFY_MAX_RETRIES.
gemini_classify_intent ==
    /\ provider = "gemini" /\ pc = "classify"
    /\ \E r \in ClassifyResponses :
         LET out == ClassifyParse(provider, r) IN
         /\ log' = Append(log, CallEv("classify", r))
         /\ IF out.ok
            THEN ReturnIntent(out.value)
            ELSE IF attempt < CLASSIFY_MAX_RETRIES - 1
                 THEN pc' = "classify_sleep" /\ UNCHANGED <<attempt, intent, result, response>>
                 ELSE ReturnIntent("OTHER")
    /\ UNCHANGED <<provider, newsvars, procvars, other, trade_history, context, invoked, chat_result, validated, op, request, chatvars>>

\* Gemini classify_intent: `await asyncio.sleep(1)`, then the next attempt
\* (or, were the loop to run out, the `return "OTHER"` after it).
gemini_classify_sleep ==
    /\ pc = "classify_sleep"
    /\ log' = Append(log, SleepEv("classify", CLASSIFY_SLEEP))
    /\ IF attempt + 1 < CLASSIFY_MAX_RETRIES
       THEN /\ attempt' = attempt + 1
            /\ pc' = "classify"
            /\ UNCHANGED <<intent, result, response>>
       ELSE ReturnIntent("OTHER")
    /\ UNCHANGED <<provider, newsvars, procvars, other, trade_history, context, invoked, chat_result, validated, op, request, chatvars>>

\* Groq classify_intent: a single try/except around one completion.
groq_classify_intent ==
    /\ provider = "groq" /\ pc = "classify"
    /\ \E r \in ClassifyResponses :
         LET out == ClassifyParse(provider, r) IN
         /\ log' = Append(log, CallEv("classify", r))
         /\ ReturnIntent(IF out.ok THEN out.value ELSE "OTHER")
    /\ UNCHANGED <<provider, newsvars, procvars, other, trade_history, context, invoked, chat_result, validated, op, request, chatvars>>

\* Grok classify_intent: a single try/except around one sample.
grok_classify_intent ==
    /\ provider = "grok" /\ pc = "classify"
    /\ \E r \in ClassifyResponses :
         LET out == ClassifyParse(provider, r) IN
         /\ log' = Append(log, CallEv("classify", r))
         /\ ReturnIntent(IF out.ok THEN out.value ELSE "OTHER")
    /\ UNCHANGED <<provider, newsvars, procvars, other, trade_history, context, invoked, chat_result, validated, op, request, chatvars>>

\* Gemini extract_trade_from_text: one attempt of its loop of
\* EXTRACT_MAX_RETRIES.
gemini_extract_trade_from_text ==
    /\ provider = "gemini" /\ pc = "extract"
    /\ \E r \in ExtractResponses :
         /\ log' = Append(log, CallEv("extract", r))
         /\ IF r.k = "raise" /\ ShouldRetry(r.err, attempt, EXTRACT_MAX_RETRIES)
            THEN /\ pc' = "extract_sleep"
                 /\ UNCHANGED <<result, validated, response>>
            ELSE /\ pc' = "done"
                 /\ result' = gemini_extract_value(r)
                 /\ validated' = gemini_validates(r)
                 /\ response' = Respond(gemini_extract_value(r))
    /\ UNCHANGED <<provider, newsvars, procvars, other, trade_history, context, invoked, chat_result, op, attempt, intent, request, chatvars>>

\* Gemini extract_trade_from_text: the backoff sleep, then the next attempt
\* (or, were the loop to run out, the `return None` after it).
gemini_extract_sleep ==
    /\ pc = "extract_sleep"
    /\ log' = Append(log, SleepEv("extract", Backoff(attempt)))
    /\ attempt' = attempt + 1
    /\ IF attempt + 1 < EXTRACT_MAX_RETRIES
       THEN pc' = "extract" /\ result' = result /\ response' = response
       ELSE pc' = "done" /\ result' = Null /\ response' = Respond(Null)
    /\ UNCHANGED <<provider, newsvars, procvars, other, trade_history, context, invoked, chat_result, validated, op, intent, request, chatvars>>

\* Groq extract_trade_from_text: a single try/except around one completion.
groq_extract_trade_from_text ==
    /\ provider = "groq" /\ pc = "extract"
    /\ \E r \in ExtractResponses :
         /\ log' = Append(log, CallEv("extract", r))
         /\ result' = groq_extract_value(r)
         /\ validated' = groq_validates(r)
         /\ response' = Respond(groq_extract_value(r))
    /\ pc' = "done"
    /\ UNCHANGED <<provider, newsvars, procvars, other, trade_history, context, invoked, chat_result, op, attempt, intent, request, chatvars>>

\* Grok extract_trade_from_text: a single try/except around one sample.
grok_extract_trade_from_text ==
    /\ provider = "grok" /\ pc = "extract"
    /\ \E r \in ExtractResponses :
         /\ log' = Append(log, CallEv("extract", r))
         /\ result' = grok_extract_value(r)
         /\ validated' = grok_validates(r)
         /\ response' = Respond(grok_extract_value(r))
    /\ pc' = "done"
    /\ UNCHANGED <<provider, newsvars, procvars, other, trade_history, context, invoked, chat_result, op, attempt, intent, request, chatvars>>

-----------------------------------------------------------------------------
(* generate_chat_response.                                                  *)

\* gemini_service.py: MAX_RETRIES of generate_chat_response
CHAT_MAX_RETRIES == 3
\* `chat_history[-6:]`
CHAT_WINDOW == 6
\* Longest chat history a request carries.
MaxHist == 7
\* Most tool calls one completion requests.
MaxToolCalls == 2

\* The i-th Message of the caller's history.
Message(i) == [role |-> IF i % 2 = 1 THEN "user" ELSE "assistant", hist |-> i]

\* One turn handed to the model: a history message (hist > 0), the system
\* instruction, the current user message, the model's tool-call turn, or a
\* tool result (id = the tool call's id).
Turn(role, hist, id, content) ==
    [role |-> role, hist |-> hist, id |-> id, content |-> content]

\* seq[-n:]
Last(seq, n) ==
    IF Len(seq) <= n THEN seq ELSE SubSeq(seq, Len(seq) - n + 1, Len(seq))

FallbackMsg(p) ==
    CASE p = "gemini" ->
           "I apologize, but my market intelligence service is overloaded right now. Please try again in a moment."
      [] p = "groq" -> "Groq service is currently unavailable. Please try again."
      [] p = "grok" -> "Grok service is currently unavailable."

GenericMsg ==
    "I processed your request but could not generate a text response. Please try rephrasing."

ChatResult(m, g) == [kind |-> "chat", message |-> m, is_grounded |-> g]

\* The turns built before the first completion: the Gemini adapter maps the
\* role assistant to model and passes the system instruction in the config;
\* the Groq and Grok adapters put it first.
BuildMessages(p, history) ==
    LET window == Last(history, CHAT_WINDOW)
        turns == [i \in 1..Len(window) |->
                    Turn(IF p = "gemini" /\ window[i].role = "assistant"
                         THEN "model" ELSE window[i].role,
                         window[i].hist, 0, "")]
        head == IF p = "gemini" THEN << >> ELSE <<Turn("system", 0, 0, "")>>
    IN  head \o turns \o <<Turn("user", 0, 0, user_message)>>

\* `trade_history[-15:]` (Gemini, Groq)
CHAT_TRADES == 15
\* `trade_history[-20:]` (Grok)
GROK_CHAT_TRADES == 20
\* Longest trade history a chat request carries.
MaxTradeHist == 21
\* Lengths of the trade histories: none, one between the two windows, and
\* one longer than both.
TradeLens == {0, CHAT_TRADES + 1, MaxTradeHist}

\* Faulty variant of trade_context: the head of the list, as in `[:15]`.
trade_context_head(p, trades) ==
    IF Len(trades) <= (IF p = "grok" THEN GROK_CHAT_TRADES ELSE CHAT_TRADES)
    THEN trades
    ELSE SubSeq(trades, 1, IF p = "grok" THEN GROK_CHAT_TRADES ELSE CHAT_TRADES)

\* The trades put into the system instruction ("No history." for none).
trade_context(p, trades) ==
    Last(trades, IF p = "grok" THEN GROK_CHAT_TRADES ELSE CHAT_TRADES)

\* generate_chat_response is called with a history of n messages and t
\* trades, and builds its prompt.
CallChat(n, t) ==
    /\ request' = [i \in 1..n |-> Message(i)]
    /\ trade_history' = [i \in 1..t |-> i]
    /\ context' = trade_context(provider, [i \in 1..t |-> i])
    /\ messages' = BuildMessages(provider, [i \in 1..n |-> Message(i)])
    /\ invoked' = <<Invocation("generate_chat_response", user_message)>>
    /\ pc' = "chat"
    /\ attempt' = 0

\* generate_chat_response is called with a history of n messages and a
\* history of t trades.
StartChat ==
    /\ pc = "idle"
    /\ op' = "chat"
    /\ \E n \in 0..MaxHist, t \in TradeLens : CallChat(n, t)
    /\ UNCHANGED <<provider, newsvars, procvars, other, chat_result, validated, response, intent, log, result, tool_calls, tool_i>>

\* A request for /ai/process-chat arrives: process_chat starts by awaiting
\* generate_chat_response.
StartProcessChat ==
    /\ pc = "idle"
    /\ op' = "process"
    /\ \E n \in {0, MaxHist}, t \in {0, MaxTradeHist} : CallChat(n, t)
    /\ UNCHANGED <<provider, newsvars, procvars, other, chat_result, validated, response, intent, log, result, tool_calls, tool_i>>

\* Where generate_chat_response returns to: its caller, or process_chat.
ChatReturned == IF op = "process" THEN "chat_returned" ELSE "done"

\* process_chat has the chat result and calls extract_trade_from_text with
\* the same text; the locals of generate_chat_response are gone, and the log
\* starts again for the method now served.
process_chat_extract ==
    /\ op = "process" /\ pc = "chat_returned"
    /\ chat_result' = result
    /\ result' = NoResult
    /\ invoked' = Append(invoked, Invocation("extract_trade_from_text", user_message))
    /\ pc' = "classify"
    /\ attempt' = 0
    /\ log' = << >>
    /\ messages' = << >>
    /\ tool_calls' = << >>
    /\ tool_i' = 0
    /\ context' = << >>
    /\ UNCHANGED <<provider, newsvars, procvars, other, op, trade_history, validated, response, intent, request>>

(* Gemini.  A reply carries the direct text (response.text, "" when empty   *)
(* or None), the candidates (none, or one with grounding metadata and       *)
(* content) and the prompt feedback's block reason ("" when there is none). *)

\* Texts of the content parts of a candidate.
PartLists == UNION {[1..n -> {"", "a"}] : n \in 0..2}

\* grounding: "none" (no grounding_metadata), "no_entry" (metadata whose
\* search_entry_point is None) or "entry" (metadata with a search entry
\* point).  has_content = FALSE is a candidate whose content is None.
Candidates ==
    [grounding : {"none", "no_entry", "entry"}, has_content : {TRUE}, parts : PartLists]
    \cup [grounding : {"none", "entry"}, has_content : {FALSE}, parts : {<< >>}]

GeminiChatResponses ==
    {Raise(e) : e \in Errors}
    \cup [k : {"reply"}, text : {"", "Hi"}, cands : {<< >>} \cup {<<c>> : c \in Candidates},
          block : {"", "SAFETY"}]

RECURSIVE Concat(_)
\* message_text += part.text over the parts
Concat(parts) ==
    IF parts = << >> THEN "" ELSE Head(parts) \o Concat(Tail(parts))

\* Faulty variant of gemini_is_grounded: any grounding metadata counts.
gemini_is_grounded_anyMetadata(r) ==
    r.cands # << >> /\ r.cands[1].grounding # "none"

\* `response.candidates and response.candidates[0].grounding_metadata` with a
\* search_entry_point that is not None
gemini_is_grounded(r) ==
    r.cands # << >> /\ r.cands[1].grounding = "entry"

\* Reading response.candidates[0].content.parts raises when content is None;
\* the elif is reached only when response.text is empty.
gemini_text_raises(r) ==
    r.text = "" /\ r.cands # << >> /\ ~r.cands[1].has_content

\* f"I cannot answer that request. (Safety Block: {block_reason})"
SafetyMsg(block) == "I cannot answer that request. (Safety Block: " \o block \o ")"

\* The text-extraction chain of generate_chat_response.
gemini_message_text(r) ==
    LET chain ==
          IF r.text # "" THEN r.text
          ELSE IF r.cands # << >> /\ r.cands[1].parts # << >>
               THEN Concat(r.cands[1].parts)
               ELSE IF r.block # ""
                    THEN SafetyMsg(r.block)
                    ELSE ""
    IN  IF chain = "" THEN GenericMsg ELSE chain

\* The value generate_chat_response returns for an upstream outcome that ends
\* its retry loop.
gemini_chat_value(r) ==
    IF r.k = "raise" \/ gemini_text_raises(r)
    THEN ChatResult(FallbackMsg("gemini"), FALSE)
    ELSE ChatResult(gemini_message_text(r), gemini_is_grounded(r))

\* Gemini generate_chat_response: one attempt of its loop of CHAT_MAX_RETRIES.
gemini_generate_chat_response ==
    /\ provider = "gemini" /\ pc = "chat"
    /\ \E r \in GeminiChatResponses :
         /\ log' = Append(log, CallEv("chat", r))
         /\ IF r.k = "raise" /\ ShouldRetry(r.err, attempt, CHAT_MAX_RETRIES)
            THEN pc' = "chat_sleep" /\ result' = result
            ELSE pc' = ChatReturned /\ result' = gemini_chat_value(r)
    /\ UNCHANGED <<provider, newsvars, procvars, other, trade_history, context, invoked, chat_result, validated, response, op, attempt, intent, request, chatvars>>

\* Gemini generate_chat_response: the backoff sleep, then the next attempt
\* (or, were the loop to run out, the fallback returned after it).
gemini_chat_sleep ==
    /\ pc = "chat_sleep"
    /\ log' = Append(log, SleepEv("chat", Backoff(attempt)))
    /\ attempt' = attempt + 1
    /\ IF attempt + 1 < CHAT_MAX_RETRIES
       THEN pc' = "chat" /\ result' = result
       ELSE pc' = ChatReturned /\ result' = ChatResult(FallbackMsg("gemini"), FALSE)
    /\ UNCHANGED <<provider, newsvars, procvars, other, trade_history, context, invoked, chat_result, validated, response, op, intent, request, chatvars>>

(* Groq and Grok.  A reply carries the message content (JsonNull for None)  *)
(* and the list of tool calls; a tool call's id is its place in the list.   *)

\* name: the function the model asks for; args: its arguments text, "ok"
\* (JSON with a query), "invalid" (not JSON) or "noquery" (JSON without one).
ToolCallKinds ==
    {[name |-> "fetch_stock_news", args |-> a] : a \in {"ok", "invalid", "noquery"}}
    \cup {[name |-> "get_price", args |-> "ok"]}

ToolCallLists == UNION {[1..n -> ToolCallKinds] : n \in 1..MaxToolCalls}

ToolChatResponses ==
    {Raise(e) : e \in Errors}
    \cup [k : {"reply"}, content : {JsonNull, "", "Hi"}, tool_calls : {<< >>}]
    \cup [k : {"reply"}, content : {JsonNull}, tool_calls : ToolCallLists]

\* Outcomes of the final completion.
FinalResponses ==
    {Raise(e) : e \in Errors}
    \cup [k : {"reply"}, content : {JsonNull, "", "Final"}, tool_calls : {<< >>}]

\* What fetch_stock_news returns: a JSON text holding articles or an error.
NewsResults == {"{articles}", "{error}"}

\* json.dumps({"error": str(tool_err)})
ToolError == "{error: tool_err}"

RECURSIVE RunTools_dropsBadCall(_, _, _)
\* Faulty variant of RunTools: a call whose arguments cannot be used is
\* passed over without a tool result.
RunTools_dropsBadCall(msgs, calls, i) ==
    IF i > Len(calls) THEN [messages |-> msgs, i |-> i]
    ELSE IF calls[i].name # "fetch_stock_news" \/ calls[i].args # "ok"
         THEN RunTools_dropsBadCall(msgs, calls, i + 1)
         ELSE [messages |-> msgs, i |-> i]

\* Faulty variant of RunTools: `msg.tool_calls[0]` in place of the loop.
RunTools_firstCallOnly(msgs, calls, i) ==
    IF i > 1 \/ calls[1].name # "fetch_stock_news"
    THEN [messages |-> msgs, i |-> Len(calls) + 1]
    ELSE IF calls[1].args # "ok"
         THEN [messages |-> Append(msgs, Turn("tool", 0, 1, ToolError)),
               i |-> Len(calls) + 1]
         ELSE [messages |-> msgs, i |-> 1]

RECURSIVE RunTools(_, _, _)
\* The loop over the tool calls from call i on, up to its next await of
\* fetch_stock_news or its end: a call of another tool appends nothing, a
\* call whose arguments do not parse or hold no query appends an error
\* result.  Gives the turns and the call now being awaited (past the end: none).
RunTools(msgs, calls, i) ==
    IF i > Len(calls) THEN [messages |-> msgs, i |-> i]
    ELSE IF calls[i].name # "fetch_stock_news" THEN RunTools(msgs, calls, i + 1)
    ELSE IF calls[i].args # "ok"
         THEN RunTools(Append(msgs, Turn("tool", 0, i, ToolError)), calls, i + 1)
         ELSE [messages |-> msgs, i |-> i]

\* The first completion of the Groq and Grok adapters and what follows it up
\* to the next suspension point.
ToolChatFirst(p) ==
    \E r \in ToolChatResponses :
      /\ log' = Append(log, CallEv("chat", r))
      /\ IF r.k = "raise"
         THEN /\ result' = ChatResult(FallbackMsg(p), FALSE)
              /\ pc' = ChatReturned
              /\ UNCHANGED chatvars
         ELSE IF r.tool_calls # << >>
              THEN LET run == RunTools(Append(messages, Turn("assistant", 0, 0, "tool_calls")),
                                       r.tool_calls, 1)
                   IN  /\ messages' = run.messages
                       /\ tool_calls' = r.tool_calls
                       /\ tool_i' = run.i
                       /\ pc' = IF run.i > Len(r.tool_calls) THEN "chat_final" ELSE "news"
                       /\ result' = result
              ELSE /\ result' = ChatResult(r.content, FALSE)
                   /\ pc' = ChatReturned
                   /\ UNCHANGED chatvars

\* `await fetch_stock_news(args["query"])` returns; its result is appended
\* as the tool result of the call, and the loop goes on.
ToolChatNews ==
    \E n \in NewsResults :
      LET run == RunTools(Append(messages, Turn("tool", 0, tool_i, n)), tool_calls, tool_i + 1)
      IN  /\ log' = Append(log, CallEv("news", [k |-> "reply", content |-> n]))
          /\ messages' = run.messages
          /\ tool_i' = run.i
          /\ pc' = IF run.i > Len(tool_calls) THEN "chat_final" ELSE "news"
          /\ UNCHANGED <<result, tool_calls>>

\* Faulty variant of tool_final_value: is_grounded only when a lookup
\* brought articles back.
tool_final_value_ifNewsFound(p, r, msgs) ==
    IF r.k = "raise"
    THEN ChatResult(FallbackMsg(p), FALSE)
    ELSE ChatResult(r.content,
                    \E i \in 1..Len(msgs) :
                        msgs[i].role = "tool" /\ msgs[i].content = "{articles}")

\* What generate_chat_response returns once the final completion over the
\* turns msgs has the outcome r: the content as it is with is_grounded True,
\* or the fallback of the enclosing except.
tool_final_value(p, r, msgs) ==
    IF r.k = "raise"
    THEN ChatResult(FallbackMsg(p), FALSE)
    ELSE ChatResult(r.content, TRUE)

\* The final completion after the tool results.
ToolChatFinal(p) ==
    \E r \in FinalResponses :
      /\ log' = Append(log, CallEv("final", r))
      /\ result' = tool_final_value(p, r, messages)
      /\ pc' = ChatReturned
      /\ UNCHANGED chatvars

groq_generate_chat_response ==
    /\ provider = "groq" /\ pc = "chat"
    /\ ToolChatFirst("groq")
    /\ UNCHANGED <<provider, newsvars, procvars, other, trade_history, context, invoked, chat_result, validated, response, op, attempt, intent, request>>

groq_fetch_stock_news ==
    /\ provider = "groq" /\ pc = "news"
    /\ ToolChatNews
    /\ UNCHANGED <<provider, newsvars, procvars, other, trade_history, context, invoked, chat_result, validated, response, op, attempt, intent, request>>

groq_final_response ==
    /\ provider = "groq" /\ pc = "chat_final"
    /\ ToolChatFinal("groq")
    /\ UNCHANGED <<provider, newsvars, procvars, other, trade_history, context, invoked, chat_result, validated, response, op, attempt, intent, request>>

grok_generate_chat_response ==
    /\ provider = "grok" /\ pc = "chat"
    /\ ToolChatFirst("grok")
    /\ UNCHANGED <<provider, newsvars, procvars, other, trade_history, context, invoked, chat_result, validated, response, op, attempt, intent, request>>

grok_fetch_stock_news ==
    /\ provider = "grok" /\ pc = "news"
    /\ ToolChatNews
    /\ UNCHANGED <<provider, newsvars, procvars, other, trade_history, context, invoked, chat_result, validated, response, op, attempt, intent, request>>

grok_final_response ==
    /\ provider = "grok" /\ pc = "chat_final"
    /\ ToolChatFinal("grok")
    /\ UNCHANGED <<provider, newsvars, procvars, other, trade_history, context, invoked, chat_result, validated, response, op, attempt, intent, request>>

-----------------------------------------------------------------------------
(* analyze_trades and generate_title_for_chat.                              *)

\* `trades[:50]`
ANALYZE_WINDOW == 50
\* `messages[-5:]`
TITLE_WINDOW == 5
\* Longest trade list a request carries.
MaxTrades == 52

\* seq[:n]
First(seq, n) == IF Len(seq) <= n THEN seq ELSE SubSeq(seq, 1, n)

\* Texts of an analysis completion: none, not JSON, a JSON array, or a JSON
\* object whose summary and insights are missing, well-typed or ill-typed.
AnalyzeBodies ==
    {[j |-> "none"], [j |-> "invalid"], [j |-> "array"]}
    \cup [j : {"object"}, summary : {Absent, "Summary"}, insights : {Absent, "[insights]", Bad}]

AnalyzeResponses ==
    {Raise(e) : e \in Errors}
    \cup {Reply(FALSE, b) : b \in AnalyzeBodies}
    \cup {Reply(TRUE, [j |-> "object", summary |-> "Summary", insights |-> "[insights]"])}

Analysis(summary, insights) ==
    [kind |-> "analysis", json |-> [j |-> "object", summary |-> summary, insights |-> insights]]

\* The result for an empty trade list.
NoTrades(p) ==
    Analysis(IF p = "groq" THEN "No trades." ELSE "No trades to analyze.", "[]")

\* `return json.loads(text)`, or the fixed failure result when the call or
\* json.loads raises.
analyze_value(p, r) ==
    IF r.k = "raise" \/ ~JsonLoads(p, r)
    THEN Analysis("Analysis failed.", "[]")
    ELSE [kind |-> "analysis", json |-> r.body]

NoResponse == [status |-> 0]

\* main.py analyze_trades_endpoint once analyze_trades has returned res:
\* result.get raises unless res is a JSON object, InsightsResponse raises
\* unless summary is a string and insights a list of strings, and whatever
\* raises becomes an HTTPException with status 500.
analyze_trades_endpoint(res) ==
    IF res.json.j # "object" THEN [status |-> 500]
    ELSE LET summary == IF res.json.summary = Absent
                        THEN "Analysis unavailable" ELSE res.json.summary
             insights == IF res.json.insights = Absent THEN "[]" ELSE res.json.insights
         IN  IF summary = Bad \/ insights = Bad
             THEN [status |-> 500]
             ELSE [status |-> 200, summary |-> summary, insights |-> insights]

\* The i-th trade of the list given to analyze_trades.
TradeItem(i) == [trade |-> i]

\* Faulty variant of StartAnalyze: without the `if not trades` return, the
\* empty list goes to the model like any other.
StartAnalyze_noEmptyCheck ==
    /\ pc = "idle"
    /\ op' = "analyze"
    /\ \E n \in 0..MaxTrades :
         /\ request' = [i \in 1..n |-> TradeItem(i)]
         /\ messages' = First([i \in 1..n |-> TradeItem(i)], ANALYZE_WINDOW)
    /\ pc' = "analyze"
    /\ result' = result
    /\ response' = response
    /\ UNCHANGED <<provider, newsvars, procvars, other, trade_history, context, invoked, chat_result, validated, attempt, intent, log, tool_calls, tool_i>>

\* A request for analyze_trades arrives with n trades: an empty list returns
\* at once, any other is cut to its first ANALYZE_WINDOW trades for the prompt.
StartAnalyze ==
    /\ pc = "idle"
    /\ op' = "analyze"
    /\ \E n \in 0..MaxTrades :
         /\ request' = [i \in 1..n |-> TradeItem(i)]
         /\ IF n = 0
            THEN /\ pc' = "done"
                 /\ result' = NoTrades(provider)
                 /\ response' = analyze_trades_endpoint(NoTrades(provider))
                 /\ messages' = << >>
            ELSE /\ pc' = "analyze"
                 /\ result' = result
                 /\ response' = response
                 /\ messages' = First([i \in 1..n |-> TradeItem(i)], ANALYZE_WINDOW)
    /\ UNCHANGED <<provider, newsvars, procvars, other, trade_history, context, invoked, chat_result, validated, attempt, intent, log, tool_calls, tool_i>>

\* The single completion of analyze_trades of adapter p, and the endpoint's
\* answer built from what it returns.
AnalyzeCall(p) ==
    /\ provider = p /\ pc = "analyze"
    /\ \E r \in AnalyzeResponses :
         /\ log' = Append(log, CallEv("analyze", r))
         /\ result' = analyze_value(p, r)
         /\ response' = analyze_trades_endpoint(analyze_value(p, r))
    /\ pc' = "done"
    /\ UNCHANGED <<provider, newsvars, procvars, other, trade_history, context, invoked, chat_result, validated, op, attempt, intent, request, chatvars>>

gemini_analyze_trades == AnalyzeCall("gemini")

groq_analyze_trades == AnalyzeCall("groq")

grok_analyze_trades == AnalyzeCall("grok")

\* Texts of a title completion: none, not JSON, a JSON array, or a JSON
\* object whose title is missing, null, a string or not a string.
TitleBodies ==
    {[j |-> "none"], [j |-> "invalid"], [j |-> "array"]}
    \cup [j : {"object"}, title : {Absent, JsonNull, "Trade recap", Bad}]

TitleResponses ==
    {Raise(e) : e \in Errors}
    \cup {Reply(FALSE, b) : b \in TitleBodies}
    \cup {Reply(TRUE, [j |-> "object", title |-> "Trade recap"])}

Title(t) == [kind |-> "title", title |-> t]

\* `data.get("title")` (Gemini, Grok) or `data.get("title", "New Chat")`
\* (Groq) after json.loads; "New Chat" when anything raises.
title_value(p, r) ==
    IF r.k = "raise" \/ ~JsonLoads(p, r) \/ r.body.j # "object"
    THEN Title("New Chat")
    ELSE IF r.body.title = Absent
         THEN Title(IF p = "groq" THEN "New Chat" ELSE JsonNull)
         ELSE Title(r.body.title)

\* main.py generate_title_endpoint once generate_title_for_chat has returned
\* t: `title or "New Chat"`, and a title that is not a string makes
\* TitleResponse raise, which becomes an HTTPException with status 500.
generate_title_endpoint(t) ==
    IF t = Bad THEN [status |-> 500]
    ELSE [status |-> 200, title |-> IF t = JsonNull \/ t = "" THEN "New Chat" ELSE t]

\* A request for generate_title_for_chat arrives with n messages, cut to the
\* last TITLE_WINDOW for the prompt.
StartTitle ==
    /\ pc = "idle"
    /\ op' = "title"
    /\ \E n \in 0..MaxHist :
         /\ request' = [i \in 1..n |-> Message(i)]
         /\ messages' = Last([i \in 1..n |-> Message(i)], TITLE_WINDOW)
    /\ pc' = "title"
    /\ UNCHANGED <<provider, newsvars, procvars, other, trade_history, context, invoked, chat_result, validated, response, attempt, intent, log, result, tool_calls, tool_i>>

\* The single completion of generate_title_for_chat of adapter p, and the
\* endpoint's answer built from what it returns.
TitleCall(p) ==
    /\ provider = p /\ pc = "title"
    /\ \E r \in TitleResponses :
         /\ log' = Append(log, CallEv("title", r))
         /\ result' = title_value(p, r)
         /\ response' = generate_title_endpoint(title_value(p, r).title)
    /\ pc' = "done"
    /\ UNCHANGED <<provider, newsvars, procvars, other, trade_history, context, invoked, chat_result, validated, op, attempt, intent, request, chatvars>>

gemini_generate_title_for_chat == TitleCall("gemini")

groq_generate_title_for_chat == TitleCall("groq")

grok_generate_title_for_chat == TitleCall("grok")

\* AIService.__name__ of the class the selector exports for adapter p.
service_name(p) == IF p = "groq" THEN "GroqService" ELSE "AIService"

\* GET /health
health ==
    /\ pc = "idle"
    /\ op' = "health"
    /\ pc' = "done"
    /\ response' = [status |-> 200, health |-> "ok", provider |-> service_name(provider)]
    /\ UNCHANGED <<provider, newsvars, procvars, other, trade_history, context, invoked, chat_result,
                   validated, attempt, intent, log, result, request, chatvars>>

\* The method has returned; the adapter serves the next request.
Return ==
    /\ pc = "done"
    /\ pc' = "idle"
    /\ op' = "none"
    /\ attempt' = 0
    /\ intent' = Unset
    /\ log' = << >>
    /\ result' = NoResult
    /\ request' = << >>
    /\ messages' = << >>
    /\ tool_calls' = << >>
    /\ tool_i' = 0
    /\ validated' = FALSE
    /\ response' = NoResponse
    /\ trade_history' = << >>
    /\ context' = << >>
    /\ invoked' = << >>
    /\ chat_result' = NoResult
    /\ UNCHANGED <<provider, newsvars, procvars, other>>

-----------------------------------------------------------------------------

(* Startup: app/provider_selector.py and the head of main.py.               *)

\* Values of the AI_PROVIDER environment variable: not set, the three
\* supported names (one in mixed case) and a name that is not supported.
AI_PROVIDER_Values == {Absent, "gemini", "Groq", "grok", "openai"}

\* key: is the API key of the selected provider set in the environment?
Environments == [AI_PROVIDER : AI_PROVIDER_Values, key : BOOLEAN]

\* str.lower() on the values above.
Lower(v) == IF v = "Groq" THEN "groq" ELSE v

\* AI_PROVIDER = os.environ.get("AI_PROVIDER", "gemini").lower()
AI_PROVIDER(e) == IF e.AI_PROVIDER = Absent THEN "gemini" ELSE Lower(e.AI_PROVIDER)

\* The class provider_selector exports as AIService, or the ImportError its
\* import statement raises: grok_service.py defines no GrokService.
AIService(e) ==
    CASE AI_PROVIDER(e) = "grok" -> "ImportError"
      [] AI_PROVIDER(e) = "gemini" -> "gemini"
      [] AI_PROVIDER(e) = "groq" -> "groq"
      [] OTHER -> "PlaceholderService"

\* Faulty variant of Constructs: the constructor does not look at the key.
Constructs_withoutKey(cls, e) == cls \in Providers

\* Does cls() return an instance?  Every adapter's __init__ raises ValueError
\* when its key is missing; PlaceholderService.__init__ always raises.
Constructs(cls, e) == cls \in Providers /\ e.key

-----------------------------------------------------------------------------
(* news_api_tool.py: fetch_stock_news.  The value it returns is a JSON text, *)
(* modelled by the object it is dumped from.                                 *)

\* `pageSize`: most articles one answer holds.
MaxArticles == 3

\* An entry of data['articles']: a complete article, one without a title,
\* one whose source is missing, one whose source is null, or an entry that
\* is not an object.
ArticleKinds == {"complete", "no_title", "no_source", "null_source", "not_object"}

ArticleLists == UNION {[1..n -> ArticleKinds] : n \in 0..MaxArticles}

\* The body of the answer: not JSON, a JSON array, or an object with its
\* status (Absent: no such key) and its articles: has = Absent (no such
\* key), JsonNull, or "list" with the entries in items.
NewsBodies ==
    {[j |-> "invalid"], [j |-> "array"]}
    \cup [j : {"object"}, status : {Absent, "ok", "error"},
          articles : [has : {Absent, JsonNull}, items : {<< >>}]]
    \cup [j : {"object"}, status : {"ok"}, articles : [has : {"list"}, items : ArticleLists]]

\* What `await client.get(...)` gives: a timeout or a connection error
\* raised, or a response with its status code and body.
HttpOutcomes ==
    {[k |-> "raise", err |-> e] : e \in {"timeout", "connect"}}
    \cup {[k |-> "response", code |-> c, body |-> [j |-> "invalid"]] : c \in {404, 500}}
    \cup {[k |-> "response", code |-> 200, body |-> b] : b \in NewsBodies}

NewsQueries == {"TSLA", "AAPL earnings"}

\* The values of fetch_stock_news.
KeyMissing == [error |-> "News API Key is missing. Cannot fetch real-time news."]
NoNews(q) == [error |-> "No recent news found for query: " \o q]
StatusError(c) == [error |-> "News API service error", code |-> c]
InternalError == [error |-> "An internal error occurred while reaching the News API."]
Articles(n) == [articles |-> n]
\* An exception that leaves fetch_stock_news.
NewsRaised == [raised |-> TRUE]

\* Does formatting the article raise?  `.get` on an entry that is not a dict,
\* or on the None that `article.get('source', {})` gives for a null source.
FormatRaises(a) == a \in {"null_source", "not_object"}

\* The body of the try for a response: raise_for_status, response.json(),
\* the status and articles test, the formatting loop.  Gives the value
\* returned, or the kind of exception raised.
news_try(q, h) ==
    IF h.k = "raise" THEN [raised |-> "other"]
    ELSE IF h.code # 200 THEN [raised |-> "status", code |-> h.code]
    ELSE IF h.body.j = "invalid" THEN [raised |-> "other"]
    ELSE IF h.body.j = "array" THEN [raised |-> "other"]
    ELSE IF h.body.status = Absent THEN [raised |-> "other"]
    ELSE IF h.body.status # "ok" THEN [returned |-> NoNews(q)]
    ELSE IF h.body.articles.has = Absent THEN [raised |-> "other"]
    ELSE IF h.body.articles.has = JsonNull \/ h.body.articles.items = << >>
         THEN [returned |-> NoNews(q)]
    ELSE IF \E i \in 1..Len(h.body.articles.items) :
                FormatRaises(h.body.articles.items[i])
         THEN [raised |-> "other"]
         ELSE [returned |-> Articles(Len(h.body.articles.items))]

\* Faulty variant of news_value: only `except httpx.HTTPStatusError`.
news_value_statusOnly(q, h) ==
    LET t == news_try(q, h) IN
    IF "returned" \in DOMAIN t THEN t.returned
    ELSE IF t.raised = "status" THEN StatusError(t.code)
    ELSE NewsRaised

\* What fetch_stock_news returns for the outcome h of its HTTP call: the
\* value of the try, or the payload of the except clause that catches.
news_value(q, h) ==
    LET t == news_try(q, h) IN
    IF "returned" \in DOMAIN t THEN t.returned
    ELSE IF t.raised = "status" THEN StatusError(t.code)
    ELSE InternalError

\* fetch_stock_news is not running.
NewsIdle == [pc |-> "idle"]

\* fetch_stock_news(query) up to its await: without the key it returns at
\* once; with it the GET is sent.
fetch_stock_news ==
    /\ news_call.pc = "idle"
    /\ \E q \in NewsQueries :
         news_call' = IF NEWS_API_KEY
                 THEN [pc |-> "get", query |-> q, gets |-> 1]
                 ELSE [pc |-> "returned", query |-> q, gets |-> 0, value |-> KeyMissing]
    /\ UNCHANGED <<vars_but_news_call, NEWS_API_KEY>>

\* `await client.get(...)` comes back, and the function returns.
fetch_stock_news_get ==
    /\ news_call.pc = "get"
    /\ \E h \in HttpOutcomes :
         news_call' = [pc |-> "returned", query |-> news_call.query, gets |-> news_call.gets,
                  http |-> h, value |-> news_value(news_call.query, h)]
    /\ UNCHANGED <<vars_but_news_call, NEWS_API_KEY>>

\* The caller has the value.
fetch_stock_news_return ==
    /\ news_call.pc = "returned"
    /\ news_call' = NewsIdle
    /\ UNCHANGED <<vars_but_news_call, NEWS_API_KEY>>

\* The handler and request state of a process that serves nothing.
Idle ==
    /\ op = "none"
    /\ pc = "idle"
    /\ attempt = 0
    /\ intent = Unset
    /\ log = << >>
    /\ result = NoResult
    /\ request = << >>
    /\ messages = << >>
    /\ tool_calls = << >>
    /\ tool_i = 0
    /\ validated = FALSE
    /\ response = NoResponse
    /\ trade_history = << >>
    /\ context = << >>
    /\ invoked = << >>
    /\ chat_result = NoResult
    /\ news_call = NewsIdle

\* main.py up to `app = FastAPI(...)`: the import of provider_selector (an
\* ImportError ends the process with a traceback), then AIService() inside
\* the try whose except calls os._exit(1).
startup ==
    /\ proc = "starting"
    /\ LET cls == AIService(env) IN
       IF cls = "ImportError"
       THEN proc' = "crashed" /\ UNCHANGED <<provider, instances>>
       ELSE IF Constructs(cls, env)
            THEN proc' = "running" /\ provider' = cls /\ instances' = instances + 1
            ELSE proc' = "exited" /\ UNCHANGED <<provider, instances>>
    /\ UNCHANGED <<env, newsvars, other, op, pc, attempt, intent, log, result, request, chatvars,
                   validated, response, trade_history, context, invoked, chat_result>>

\* The frame of a handler that has not started.
NoHandler ==
    [op |-> "none",
     pc |-> "idle",
     attempt |-> 0,
     intent |-> Unset,
     log |-> << >>,
     result |-> NoResult,
     request |-> << >>,
     messages |-> << >>,
     tool_calls |-> << >>,
     tool_i |-> 0,
     validated |-> FALSE,
     response |-> NoResponse,
     trade_history |-> << >>,
     context |-> << >>,
     invoked |-> << >>,
     chat_result |-> NoResult]

\* The service after startup, with one of the three adapter classes
\* constructed as ai_service.
Init ==
    /\ provider \in Providers
    /\ env = [AI_PROVIDER |-> provider, key |-> TRUE]
    /\ proc = "running"
    /\ instances = 1
    /\ other = NoHandler
    /\ NEWS_API_KEY = TRUE
    /\ Idle

\* The process before main.py runs.
StartupInit ==
    /\ provider = "none"
    /\ env \in Environments
    /\ proc = "starting"
    /\ instances = 0
    /\ other = NoHandler
    /\ NEWS_API_KEY = TRUE
    /\ Idle

Next ==
    \/ StartExtract
    \/ gemini_classify_intent
    \/ gemini_classify_sleep
    \/ groq_classify_intent
    \/ grok_classify_intent
    \/ gemini_extract_trade_from_text
    \/ gemini_extract_sleep
    \/ groq_extract_trade_from_text
    \/ grok_extract_trade_from_text
    \/ StartChat
    \/ StartProcessChat
    \/ process_chat_extract
    \/ gemini_generate_chat_response
    \/ gemini_chat_sleep
    \/ groq_generate_chat_response
    \/ groq_fetch_stock_news
    \/ groq_final_response
    \/ grok_generate_chat_response
    \/ grok_fetch_stock_news
    \/ grok_final_response
    \/ StartAnalyze
    \/ gemini_analyze_trades
    \/ groq_analyze_trades
    \/ grok_analyze_trades
    \/ StartTitle
    \/ gemini_generate_title_for_chat
    \/ groq_generate_title_for_chat
    \/ grok_generate_title_for_chat
    \/ health
    \/ Return

Spec == Init /\ [][Next]_vars

\* The service when every upstream call and every sleep awaited comes back:
\* the event loop then resumes the handler that awaits it.
FairSpec == Spec /\ WF_vars(Next)

\* The process from its start: the endpoints exist only once startup has
\* reached `app = FastAPI(...)`.
StartupNext ==
    \/ startup
    \/ proc = "running" /\ Next

StartupSpec == StartupInit /\ [][StartupNext]_vars

-----------------------------------------------------------------------------
(* Properties.                                                              *)

Is503(r) == r.k = "raise" /\ r.err = "api503"

\* Every outcome of the sequence is the service-unavailable condition.
AllUnavailable(c) == \A i \in 1..Len(c) : Is503(c[i])

\* The number of service-unavailable outcomes in the sequence.
Count503(c) == Cardinality({i \in 1..Len(c) : Is503(c[i])})

\* The calls of the log are all of the given kinds.
OnlyCalls(kinds) == \A i \in 1..Len(log) : log[i].ev = "call" => log[i].what \in kinds

\* C1: in every adapter, once classify_intent has returned a value other
\* than LOG_TRADE, extract_trade_from_text has returned null, no extraction
\* completion was issued and the only upstream calls are classification calls.
C1_IntentGating ==
    (op = "extract" /\ intent # Unset /\ intent # "LOG_TRADE")
        => /\ pc = "done"
           /\ result = Null
           /\ Calls("extract") = << >>
           /\ OnlyCalls({"classify"})

C1_Witness ==
    /\ provider = "groq" /\ op = "extract" /\ pc = "done"
    /\ intent = "NEWS_MARKET" /\ Len(Calls("classify")) = 1

\* The upstream outcome r is a failed classification for the adapter: the
\* call raised, the text is missing or not valid JSON (a fenced text is not,
\* unless the adapter strips the fence), or it holds no intent string.
ClassificationFailed(r) ==
    \/ r.k = "raise"
    \/ r.k = "reply" /\ r.body.j \in {"none", "invalid", "array"}
    \/ r.k = "reply" /\ r.fenced /\ provider # "grok"
    \/ r.k = "reply" /\ r.body.j = "object" /\ r.body.intent \in {Absent, JsonNull}

C3_IntentIsToken ==
    intent # Unset => intent \in IntentTokens

\* C4: in the Gemini adapter, when every extraction call raises the
\* service-unavailable condition, extract_trade_from_text makes exactly 3
\* calls and then returns null; when every chat call raises it,
\* generate_chat_response makes exactly 3 calls and then returns the fallback
\* message with is_grounded = false.
C4_RetryExhaustion ==
    provider = "gemini" =>
      /\ LET c == Calls("extract") IN
         (op = "extract" /\ Len(c) > 0 /\ AllUnavailable(c))
            => /\ Len(c) <= 3
               /\ (pc = "done" <=> Len(c) = 3)
               /\ (pc = "done" => result = Null)
      /\ LET c == Calls("chat") IN
         (op = "chat" /\ Len(c) > 0 /\ AllUnavailable(c))
            => /\ Len(c) <= 3
               /\ (pc = "done" <=> Len(c) = 3)
               /\ (pc = "done" => result = ChatResult(FallbackMsg("gemini"), FALSE))

C4_Witness ==
    /\ provider = "gemini" /\ op = "extract" /\ pc = "done"
    /\ Len(Calls("extract")) = 3 /\ AllUnavailable(Calls("extract"))

\* C5: in the Gemini adapter, when the upstream raises the
\* service-unavailable condition on the first two calls and answers the
\* third, extract_trade_from_text and generate_chat_response go on to a third
\* call after exactly two backoff delays and return what the third answer
\* holds: the validated record, or the answer's text with its grounding.
C5_RetryThenSuccess ==
    provider = "gemini" =>
      /\ \A w \in {"extract", "chat"} :
           LET c == Calls(w) IN
           /\ (op = w /\ Len(c) \in {1, 2} /\ AllUnavailable(c))
                 => pc \in {"extract_sleep", "extract", "chat_sleep", "chat"}
           /\ (op = w /\ Len(c) = 3 /\ Is503(c[1]) /\ Is503(c[2]) /\ c[3].k = "reply")
                 => pc = "done" /\ Len(Delays(w)) = 2
      /\ LET c == Calls("extract") IN
         (op = "extract" /\ Len(c) = 3 /\ c[3].k = "reply" /\ ~c[3].fenced
            /\ c[3].body \in {OpenTrade, ClosedTrade})
            => result.kind = "trade" /\ result.rec.ticker = c[3].body.f.ticker
      /\ LET c == Calls("chat") IN
         (op = "chat" /\ Len(c) = 3 /\ c[3].k = "reply" /\ c[3].text # "")
            => result.kind = "chat" /\ result.message = c[3].text

C5_Witness ==
    /\ provider = "gemini" /\ op = "extract" /\ pc = "done"
    /\ Len(Calls("extract")) = 3
    /\ Calls("extract")[3] = Reply(FALSE, ClosedTrade)
    /\ Delays("extract") = <<1, 2>>
    /\ result.kind = "trade"

\* The delays 2^0, 2^1, ..., 2^(n-1).
Schedule(n) == [i \in 1..n |-> 2 ^ (i - 1)]

Min(a, b) == IF a <= b THEN a ELSE b

NonTransientFailure(w, r) ==
    \/ r.k = "raise" /\ r.err # "api503"
    \/ /\ w = "extract" /\ r.k = "reply"
       /\ r.body \in {[j |-> "invalid"], [j |-> "sentinel"], NoQuantity, NoTicker, BadPrice}
    \/ /\ w = "chat" /\ provider = "gemini" /\ r.k = "reply"
       /\ r.text = "" /\ r.cands # << >> /\ ~r.cands[1].has_content

\* C7: once an attempt of extract_trade_from_text or generate_chat_response
\* has failed with anything other than the service-unavailable condition, no
\* delay and no upstream call follows it; extraction has returned null and
\* chat the fallback message.
C7_NonTransientEndsLoop ==
    \A i \in 1..Len(log) :
      (log[i].ev = "call" /\ log[i].what \in {"extract", "chat"}
         /\ NonTransientFailure(log[i].what, log[i].r))
        => /\ i = Len(log)
           /\ pc \in {"done", "chat_returned"}
           /\ (log[i].what = "extract" => result = Null)
           /\ (log[i].what = "chat" => result = ChatResult(FallbackMsg(provider), FALSE))

C7_Witness ==
    /\ provider = "gemini" /\ op = "chat" /\ pc = "done"
    /\ Len(log) = 3
    /\ log[1].ev = "call" /\ Is503(log[1].r)
    /\ log[2].ev = "sleep"
    /\ log[3].ev = "call" /\ log[3].r = Raise("apiOther")

\* C8: in every adapter, a first service-unavailable failure of
\* extract_trade_from_text or generate_chat_response is followed by a backoff
\* and a second attempt, not by the return of null / the fallback.
C8_RetryInEveryAdapter ==
    \A w \in {"extract", "chat"} :
      (op = w /\ pc = "done" /\ Len(Calls(w)) > 0 /\ Is503(Calls(w)[1]))
        => Len(Delays(w)) >= 1 /\ Len(Calls(w)) >= 2

\* C9 as stated: one invocation of classify_intent, analyze_trades or
\* generate_title_for_chat issues at most one upstream call and sleeps never.
C9_NoRetryOutsideExtractAndChat ==
    \A w \in {"classify", "analyze", "title"} :
      Len(Calls(w)) <= 1 /\ Delays(w) = << >>

\* C9 amended: analyze_trades and generate_title_for_chat issue at most one
\* upstream call and never sleep, in every adapter; so does classify_intent
\* in the Groq and Grok adapters.  The Gemini classify_intent makes a second
\* call after a failed first one, one fixed 1s sleep between them, and never
\* a third call nor a growing backoff.
C9_BoundedClassifyRetry ==
    /\ \A w \in {"analyze", "title"} : Len(Calls(w)) <= 1 /\ Delays(w) = << >>
    /\ provider # "gemini" => Len(Calls("classify")) <= 1 /\ Delays("classify") = << >>
    /\ provider = "gemini" =>
         /\ Len(Calls("classify")) <= 2
         /\ Delays("classify") \in {<< >>, <<1>>}
         /\ (Len(Calls("classify")) = 2
               => ClassificationFailed(Calls("classify")[1]) /\ Delays("classify") = <<1>>)

C9_Witness ==
    /\ provider = "gemini" /\ op = "extract" /\ pc = "done"
    /\ Len(Calls("classify")) = 2
    /\ Delays("classify") = <<1>>
    /\ intent = "LOG_TRADE"

\* What the upstream reported of a live lookup in a finished chat request: a
\* tool call in the first completion (Groq, Grok), or search-grounding
\* metadata with its search entry point in the last completion (Gemini).
LookupReported ==
    LET c == Calls("chat")
        r == c[Len(c)]
    IN  /\ Len(c) > 0
        /\ r.k = "reply"
        /\ IF provider = "gemini"
           THEN r.cands # << >> /\ r.cands[1].grounding = "entry"
           ELSE r.tool_calls # << >>

\* The finished chat request returns a model answer: its last completion
\* (the final one after tool calls) did not raise and could be read.
Answered ==
    /\ \A i \in 1..Len(log) : log[i].ev = "call" /\ log[i].what = "final" => log[i].r.k = "reply"
    /\ LET c == Calls("chat")
           r == c[Len(c)]
       IN  /\ Len(c) > 0
           /\ r.k = "reply"
           /\ provider = "gemini" => ~(r.text = "" /\ r.cands # << >> /\ ~r.cands[1].has_content)

-----------------------------------------------------------------------------
(* C11 .. C20.                                                              *)

ToolAdapters == {"groq", "grok"}

\* The finished chat request of a tool adapter whose first completion asked
\* for tool calls.
ToolCallRequested ==
    /\ provider \in ToolAdapters /\ op = "chat" /\ pc = "done"
    /\ LookupReported

\* The contents of the tool-result turns handed to the model, in order.
ToolResults ==
    LET F[i \in 0..Len(messages)] ==
          IF i = 0 THEN << >>
          ELSE IF messages[i].role = "tool"
               THEN Append(F[i - 1], messages[i].content)
               ELSE F[i - 1]
    IN  F[Len(messages)]

RECURSIVE ExpectedToolTurns(_, _, _)
\* The tool-result turns the calls from call i on should leave, given the
\* results of the lookups still to be used: one per fetch_stock_news call, in
\* the order of the calls, holding the lookup's result (or the error raised
\* before the lookup could start).
ExpectedToolTurns(calls, i, news) ==
    IF i > Len(calls) THEN << >>
    ELSE IF calls[i].name # "fetch_stock_news" THEN ExpectedToolTurns(calls, i + 1, news)
    ELSE IF calls[i].args # "ok"
         THEN <<Turn("tool", 0, i, ToolError)>> \o ExpectedToolTurns(calls, i + 1, news)
         ELSE IF news = << >>
              THEN <<Turn("tool", 0, i, "<no lookup>")>>
                       \o ExpectedToolTurns(calls, i + 1, news)
              ELSE <<Turn("tool", 0, i, Head(news).content)>>
                       \o ExpectedToolTurns(calls, i + 1, Tail(news))

\* The number of well-formed fetch_stock_news calls among the tool calls.
Lookups(calls) ==
    Cardinality({i \in 1..Len(calls) :
                    calls[i].name = "fetch_stock_news" /\ calls[i].args = "ok"})

\* C12: in the Groq and Grok adapters a chat request makes its first
\* completion first and at most one more completion, the final one, last;
\* the final completion is made exactly once when the first one held tool
\* calls and never otherwise (then the request makes exactly one completion
\* call).  Before the final completion the turns are the prompt, then the
\* model's tool-call turn, then one tool-result turn per fetch_stock_news call
\* in order, each holding the result of the lookup executed for that call; all
\* the lookups lie between the two completions.
C12_ToolCallProtocol ==
    (provider \in ToolAdapters /\ op = "chat")
        => /\ Len(Calls("chat")) <= 1 /\ Len(Calls("final")) <= 1
           /\ \A i \in 1..Len(log) :
                 /\ log[i].ev = "call"
                 /\ log[i].what \in {"chat", "news", "final"}
                 /\ log[i].what = "chat" <=> i = 1
                 /\ log[i].what = "final" => i = Len(log)
           /\ Len(Calls("final")) = 1 => LookupReported
           /\ pc = "done"
                => IF LookupReported THEN Len(Calls("final")) = 1 ELSE Len(log) = 1
           /\ (pc \in {"chat_final", "done"} /\ LookupReported)
                => LET calls == Calls("chat")[1].tool_calls IN
                   /\ Len(Calls("news")) = Lookups(calls)
                   /\ messages = BuildMessages(provider, request)
                                  \o <<Turn("assistant", 0, 0, "tool_calls")>>
                                  \o ExpectedToolTurns(calls, 1, Calls("news"))

\* Two lookups with different results between the two completions.
C12_Witness ==
    /\ provider = "groq" /\ op = "chat" /\ pc = "done"
    /\ Len(log) = 4
    /\ Lookups(Calls("chat")[1].tool_calls) = 2
    /\ ToolResults = <<"{error}", "{articles}">>
    /\ Calls("final")[1].k = "reply"

\* A message that is a string with at least one character.
NonEmptyString(m) == m # JsonNull /\ m # ""

\* C13 as stated: for every adapter and every upstream outcome, including
\* empty or absent text of the first or of the final completion, the message
\* of the ChatResult is a non-empty string.
C13_MessageNeverEmpty ==
    (op = "chat" /\ pc = "done") => NonEmptyString(result.message)

\* The finished chat request of the Gemini adapter whose last completion
\* returned a response.
GeminiReplied ==
    /\ provider = "gemini" /\ op = "chat" /\ pc = "done"
    /\ Len(Calls("chat")) > 0
    /\ Calls("chat")[Len(Calls("chat"))].k = "reply"

GeminiReply == Calls("chat")[Len(Calls("chat"))]

\* C14 as stated: whenever the response has empty direct text and a populated
\* safety-block reason, the returned message is non-empty and holds an
\* explicit safety-block indication, for every shape of the response's
\* candidates and content parts.
C14_SafetyBlockIndicated ==
    (GeminiReplied /\ GeminiReply.text = "" /\ GeminiReply.block # "")
        => /\ NonEmptyString(result.message)
           /\ result.message = SafetyMsg(GeminiReply.block)

\* The text reassembled from the content parts of the first candidate, empty
\* when there is no candidate, no content or no part.
PartsText(r) ==
    IF r.cands # << >> /\ r.cands[1].has_content THEN Concat(r.cands[1].parts) ELSE ""

\* C15 as stated: the message is the direct text if non-empty; else the
\* concatenation, in order, of the candidate's parts' text if non-empty; else
\* the safety-block explanation if the request was filtered; else the generic
\* message.  Each later source is used exactly when all earlier ones are empty.
C15_OrderedTextChain ==
    GeminiReplied
        => LET r == GeminiReply IN
           result.message =
               IF r.text # "" THEN r.text
               ELSE IF PartsText(r) # "" THEN PartsText(r)
               ELSE IF r.block # "" THEN SafetyMsg(r.block)
               ELSE GenericMsg

\* extract_trade_from_text has returned after an extraction completion that
\* gave a text.
ExtractReplied ==
    /\ op = "extract" /\ pc = "done"
    /\ Len(Calls("extract")) > 0
    /\ Calls("extract")[Len(Calls("extract"))].k = "reply"

ExtractReply == Calls("extract")[Len(Calls("extract"))]

\* C16 as stated: when the classifier says LOG_TRADE and the extraction
\* completion is a record well-formed except that it omits quantity,
\* extract_trade_from_text returns a record with quantity = 1; a returned
\* record never has an absent quantity.
C16_QuantityDefault ==
    /\ (ExtractReplied /\ intent = "LOG_TRADE" /\ ExtractReply = Reply(FALSE, NoQuantity))
          => (result.kind = "trade" /\ result.rec.quantity = "1")
    /\ (op = "extract" /\ pc = "done" /\ result.kind = "trade")
          => result.rec.quantity \notin {Absent, JsonNull}

\* A completion text that is not JSON for the adapter, is not a JSON object,
\* or is an object that TradeCreate rejects.
FailsValidation(r) ==
    \/ r.body.j # "object"
    \/ r.fenced /\ ~StripsFence(provider)
    \/ \E k \in Required : r.body.f[k] \in {Absent, JsonNull, Bad}
    \/ \E k \in Optional : r.body.f[k] = Bad

\* C17: every value extract_trade_from_text returns is null or a record that
\* holds all of ticker, entry_date, entry_price and quantity, well-typed, with
\* the values of the completion; a completion that fails validation or is
\* not JSON yields null, never a partial record and never a raised error.
C17_AllOrNothing ==
    (op = "extract" /\ pc = "done")
        => /\ result.kind \in {"null", "trade"}
           /\ result.kind = "trade"
                => /\ ExtractReplied
                   /\ DOMAIN result.rec = TradeFields
                   /\ \A k \in Required :
                         /\ result.rec[k] \notin {Absent, JsonNull, Bad}
                         /\ result.rec[k] = ExtractReply.body.f[k]
                   /\ \A k \in Optional : result.rec[k] \notin {Absent, Bad}
           /\ (ExtractReplied /\ FailsValidation(ExtractReply)) => result = Null

\* A record without ticker reaches the validation and comes back as null.
C17_Witness ==
    /\ ExtractReplied /\ provider = "groq"
    /\ ExtractReply.body = NoTicker
    /\ validated
    /\ result = Null

\* The completion text is empty or absent, or is the literal null or none in
\* any case with surrounding whitespace ignored.
NullText(r) ==
    /\ ~r.fenced
    /\ \/ r.body.j \in {"none", "empty"}
       \/ r.body.j = "literal" /\ StripLower(r.body.lit) \in {"null", "none"}

\* The extraction completion that gave the text is the last thing the
\* request did: no sleep and no further call follows it.
NoRetryAfterReply ==
    /\ log[Len(log)].ev = "call" /\ log[Len(log)].what = "extract"
    /\ Delays("extract") = << >> \/ provider = "gemini"

\* C18 as stated: a gated-in extraction completion whose text is the literal
\* null or none, or is empty, makes extract_trade_from_text return null as a
\* normal result: no validation is attempted, there is no retry, and no
\* error is raised.
C18_NullTextSkipsValidation ==
    (ExtractReplied /\ NullText(ExtractReply))
        => /\ result = Null
           /\ ~validated
           /\ NoRetryAfterReply

\* C18 amended: such a completion makes extract_trade_from_text return null in
\* every adapter, with no retry and no error reaching the caller.  The Gemini
\* adapter attempts no validation; the Grok adapter attempts none when the
\* text holds null; for the other texts the Groq and Grok adapters either
\* attempt the validation, which fails and is caught, or fail before it on an
\* absent text, and return null from their except branch.
C18_NullTextYieldsNull ==
    (ExtractReplied /\ NullText(ExtractReply))
        => /\ result = Null
           /\ NoRetryAfterReply
           /\ provider = "gemini" => ~validated
           /\ (provider = "grok" /\ ExtractReply.body.j = "literal"
                  /\ StripLower(ExtractReply.body.lit) = "null") => ~validated
           /\ validated
                => /\ provider \in {"groq", "grok"}
                   /\ ~model_validate_json(provider, ExtractReply).ok

\* The Gemini adapter gets the text None (the literal none) and returns null
\* without validating it.
C18_Witness ==
    /\ ExtractReplied /\ provider = "gemini"
    /\ ExtractReply.body = [j |-> "literal", lit |-> "None"]
    /\ ~validated
    /\ result = Null

\* The value is a {summary, insights} object: a string and a list of strings.
IsInsights(json) ==
    /\ json.j = "object"
    /\ json.summary \notin {Absent, Bad}
    /\ json.insights \notin {Absent, Bad}

\* The analysis completion raised, gave no JSON, gave JSON that is not an
\* object, or gave an object whose fields are missing or ill-typed.
AnalysisFailed ==
    LET r == Calls("analyze")[1] IN
    /\ Len(Calls("analyze")) = 1
    /\ \/ r.k = "raise"
       \/ ~JsonLoads(provider, r)
       \/ ~IsInsights(r.body)

\* C19 as stated: for every upstream outcome the analyze_trades method and
\* the /ai/analyze-trades endpoint return a {summary, insights} value, with
\* summary "Analysis failed." and no insights on failure, never an HTTP error.
C19_AnalyzeNeverErrors ==
    (op = "analyze" /\ pc = "done")
        => /\ IsInsights(result.json)
           /\ response.status = 200
           /\ AnalysisFailed
                => /\ result = Analysis("Analysis failed.", "[]")
                   /\ response = [status |-> 200, summary |-> "Analysis failed.",
                                  insights |-> "[]"]

\* C20 as stated: analyze_trades forwards at most 50 trades, and of a longer
\* list it forwards the 50 most recent ones, the tail of the list as in the
\* chat adapter's trade-history window.
C20_ForwardsMostRecent ==
    (op = "analyze")
        => /\ Len(messages) <= ANALYZE_WINDOW
           /\ messages = Last(request, ANALYZE_WINDOW)

-----------------------------------------------------------------------------
(* Two requests in flight.  The event loop runs one handler at a time and   *)
(* changes handler only where the running one awaits; the parameters and    *)
(* locals of a coroutine are its frame, the attributes of ai_service are    *)
(* shared by all of them.                                                    *)

\* Faulty variant of SharedFields: the turns kept as `self.messages`.
SharedFields_messages == {"messages"}

\* The per-request values kept on the adapter instance: none.  __init__
\* assigns the client and the model names, and no method assigns to self.
SharedFields == {}

\* The frame of the running handler.
Frame ==
    [op |-> op,
     pc |-> pc,
     attempt |-> attempt,
     intent |-> intent,
     log |-> log,
     result |-> result,
     request |-> request,
     messages |-> messages,
     tool_calls |-> tool_calls,
     tool_i |-> tool_i,
     validated |-> validated,
     response |-> response,
     trade_history |-> trade_history,
     context |-> context,
     invoked |-> invoked,
     chat_result |-> chat_result]

\* The running handler is at an await that yields to the event loop.  The
\* Grok adapter calls its SDK synchronously: it yields only while awaiting
\* fetch_stock_news.
Suspended ==
    provider = "grok" => pc \in {"idle", "news", "chat_returned", "done"}

\* What a name refers to once the other handler runs: the shared attribute,
\* or that handler's own local.
Resumed(f) == IF f \in SharedFields THEN Frame[f] ELSE other[f]

\* The event loop suspends the running handler and resumes the other one.
Switch ==
    /\ Suspended
    /\ op' = Resumed("op")
    /\ pc' = Resumed("pc")
    /\ attempt' = Resumed("attempt")
    /\ intent' = Resumed("intent")
    /\ log' = Resumed("log")
    /\ result' = Resumed("result")
    /\ request' = Resumed("request")
    /\ messages' = Resumed("messages")
    /\ tool_calls' = Resumed("tool_calls")
    /\ tool_i' = Resumed("tool_i")
    /\ validated' = Resumed("validated")
    /\ response' = Resumed("response")
    /\ trade_history' = Resumed("trade_history")
    /\ context' = Resumed("context")
    /\ invoked' = Resumed("invoked")
    /\ chat_result' = Resumed("chat_result")
    /\ other' = [op |-> IF "op" \in SharedFields THEN other.op ELSE op,
                  pc |-> IF "pc" \in SharedFields THEN other.pc ELSE pc,
                  attempt |-> IF "attempt" \in SharedFields THEN other.attempt ELSE attempt,
                  intent |-> IF "intent" \in SharedFields THEN other.intent ELSE intent,
                  log |-> IF "log" \in SharedFields THEN other.log ELSE log,
                  result |-> IF "result" \in SharedFields THEN other.result ELSE result,
                  request |-> IF "request" \in SharedFields THEN other.request ELSE request,
                  messages |-> IF "messages" \in SharedFields THEN other.messages ELSE messages,
                  tool_calls |-> IF "tool_calls" \in SharedFields THEN other.tool_calls ELSE tool_calls,
                  tool_i |-> IF "tool_i" \in SharedFields THEN other.tool_i ELSE tool_i,
                  validated |-> IF "validated" \in SharedFields THEN other.validated ELSE validated,
                  response |-> IF "response" \in SharedFields THEN other.response ELSE response,
                  trade_history |-> IF "trade_history" \in SharedFields THEN other.trade_history ELSE trade_history,
                  context |-> IF "context" \in SharedFields THEN other.context ELSE context,
                  invoked |-> IF "invoked" \in SharedFields THEN other.invoked ELSE invoked,
                  chat_result |-> IF "chat_result" \in SharedFields THEN other.chat_result ELSE chat_result]
    /\ UNCHANGED <<provider, newsvars, procvars>>

\* Longest history and most tool calls of the requests run side by side.
ConcurrentHist == 1
ConcurrentCalls == 1

\* The requests run side by side: chat requests without trades.
SideBySide ==
    /\ op \in {"none", "chat"}
    /\ Len(request) <= ConcurrentHist
    /\ trade_history = << >>
    /\ \A i \in 1..Len(log) :
          (log[i].ev = "call" /\ log[i].what = "chat" /\ log[i].r.k = "reply"
             /\ provider # "gemini")
                => Len(log[i].r.tool_calls) <= ConcurrentCalls

ConcurrentNext ==
    \/ Switch
    \/ Next /\ SideBySide'

ConcurrentSpec == Init /\ [][ConcurrentNext]_vars

-----------------------------------------------------------------------------
(* ai_service.py, the adapter gemini_service.py was made from, constructed  *)
(* as ai_service.  It has no classify_intent: extract_trade_from_text goes  *)
(* straight to its extraction loop, and what the loop cannot handle it      *)
(* raises.                                                                   *)

\* ai_service.py: MAX_RETRIES of extract_trade_from_text and of
\* generate_chat_response
LEGACY_MAX_RETRIES == 3
\* `trade_history[-20:]`
LEGACY_CHAT_TRADES == 20

\* An exception that leaves the method.
Raised == [kind |-> "raised"]

\* main.py: `except Exception as e: raise HTTPException(status_code=500, ...)`
http_500 == [status |-> 500]

LegacyFallbackMsg ==
    "I apologize, but my market intelligence service is overloaded right now. Please wait a moment and try again."

\* Faulty variant of legacy_extract_value: every failure gives None, as in
\* gemini_service.py.
legacy_extract_value_returnsNone(r) ==
    IF r.k = "reply" /\ gemini_validates(r) /\ model_validate_json("legacy", r).ok
    THEN Trade(model_validate_json("legacy", r).rec)
    ELSE Null

\* What extract_trade_from_text does with an upstream outcome that ends its
\* loop: the validated trade, None for an empty or null text, and otherwise
\* the exception, re-raised by `raise` in both except clauses.
legacy_extract_value(r) ==
    IF r.k = "raise" THEN Raised
    ELSE IF gemini_validates(r)
         THEN LET v == model_validate_json("legacy", r)
              IN  IF v.ok THEN Trade(v.rec) ELSE Raised
         ELSE Null

\* What the endpoint being served answers once extract_trade_from_text has
\* returned v or raised.
legacy_Respond(v) == IF v = Raised THEN http_500 ELSE Respond(v)

\* A request for /ai/extract-trade arrives.
legacy_StartExtract ==
    /\ provider = "legacy" /\ pc = "idle"
    /\ op' = "extract"
    /\ pc' = "extract"
    /\ attempt' = 0
    /\ request' = << >>
    /\ invoked' = <<Invocation("extract_trade_from_text", user_message)>>
    /\ UNCHANGED <<provider, newsvars, procvars, other, intent, log, result, messages, tool_calls, tool_i, validated, response, trade_history, context, chat_result>>

\* extract_trade_from_text: one attempt of its loop of LEGACY_MAX_RETRIES.
legacy_extract_trade_from_text ==
    /\ provider = "legacy" /\ pc = "extract"
    /\ \E r \in ExtractResponses :
         /\ log' = Append(log, CallEv("extract", r))
         /\ IF r.k = "raise" /\ ShouldRetry(r.err, attempt, LEGACY_MAX_RETRIES)
            THEN /\ pc' = "extract_sleep"
                 /\ UNCHANGED <<result, validated, response>>
            ELSE /\ pc' = "done"
                 /\ result' = legacy_extract_value(r)
                 /\ validated' = gemini_validates(r)
                 /\ response' = legacy_Respond(legacy_extract_value(r))
    /\ UNCHANGED <<provider, newsvars, procvars, other, op, attempt, intent, request, messages, tool_calls, tool_i, trade_history, context, invoked, chat_result>>

\* extract_trade_from_text: `await asyncio.sleep(wait_time)`, then the next
\* attempt (or, were the loop to run out, the end of the function).
legacy_extract_sleep ==
    /\ provider = "legacy" /\ pc = "extract_sleep"
    /\ log' = Append(log, SleepEv("extract", Backoff(attempt)))
    /\ attempt' = attempt + 1
    /\ IF attempt + 1 < LEGACY_MAX_RETRIES
       THEN pc' = "extract" /\ result' = result /\ response' = response
       ELSE pc' = "done" /\ result' = Null /\ response' = legacy_Respond(Null)
    /\ UNCHANGED <<provider, newsvars, procvars, other, op, intent, request, messages, tool_calls, tool_i, validated, trade_history, context, invoked, chat_result>>

\* Outcomes of the chat completion: response.text (JsonNull for None) and the
\* candidates.
LegacyChatResponses ==
    {Raise(e) : e \in Errors}
    \cup [k : {"reply"}, text : {JsonNull, "Hi"},
          cands : {<< >>}
                  \cup {<<[grounding |-> g, has_content |-> TRUE, parts |-> << >>]>> :
                          g \in {"none", "no_entry", "entry"}}]

\* A request for /ai/process-chat arrives: process_chat starts by awaiting
\* generate_chat_response with a history of n messages and t trades.
legacy_StartProcessChat ==
    /\ provider = "legacy" /\ pc = "idle"
    /\ \E n \in {0, MaxHist}, t \in {0, MaxTradeHist} :
         /\ request' = [i \in 1..n |-> Message(i)]
         /\ trade_history' = [i \in 1..t |-> i]
         /\ context' = Last([i \in 1..t |-> i], LEGACY_CHAT_TRADES)
         /\ messages' = BuildMessages("gemini", [i \in 1..n |-> Message(i)])
    /\ invoked' = <<Invocation("generate_chat_response", user_message)>>
    /\ op' = "process"
    /\ pc' = "chat"
    /\ attempt' = 0
    /\ UNCHANGED <<provider, newsvars, procvars, other, intent, log, result, tool_calls, tool_i, validated, response, chat_result>>

\* generate_chat_response: one attempt of its loop; response.text is returned
\* as it is, and every failure that is not retried gives the fallback.
legacy_generate_chat_response ==
    /\ provider = "legacy" /\ pc = "chat"
    /\ \E r \in LegacyChatResponses :
         /\ log' = Append(log, CallEv("chat", r))
         /\ IF r.k = "raise" /\ ShouldRetry(r.err, attempt, LEGACY_MAX_RETRIES)
            THEN pc' = "chat_sleep" /\ result' = result
            ELSE /\ pc' = ChatReturned
                 /\ result' = IF r.k = "raise"
                              THEN ChatResult(LegacyFallbackMsg, FALSE)
                              ELSE ChatResult(r.text, gemini_is_grounded(r))
    /\ UNCHANGED <<provider, newsvars, procvars, other, op, attempt, intent, request, messages, tool_calls, tool_i, validated, response, trade_history, context, invoked, chat_result>>

\* generate_chat_response: the backoff sleep, then the next attempt.
legacy_chat_sleep ==
    /\ provider = "legacy" /\ pc = "chat_sleep"
    /\ log' = Append(log, SleepEv("chat", Backoff(attempt)))
    /\ attempt' = attempt + 1
    /\ IF attempt + 1 < LEGACY_MAX_RETRIES
       THEN pc' = "chat" /\ result' = result
       ELSE pc' = ChatReturned /\ result' = Null
    /\ UNCHANGED <<provider, newsvars, procvars, other, op, intent, request, messages, tool_calls, tool_i, validated, response, trade_history, context, invoked, chat_result>>

\* process_chat has the chat result and calls extract_trade_from_text with
\* the same text.
legacy_process_chat_extract ==
    /\ provider = "legacy" /\ op = "process" /\ pc = "chat_returned"
    /\ chat_result' = result
    /\ result' = NoResult
    /\ invoked' = Append(invoked, Invocation("extract_trade_from_text", user_message))
    /\ pc' = "extract"
    /\ attempt' = 0
    /\ log' = << >>
    /\ messages' = << >>
    /\ tool_calls' = << >>
    /\ tool_i' = 0
    /\ context' = << >>
    /\ UNCHANGED <<provider, newsvars, procvars, other, op, intent, request, validated, response, trade_history>>

\* The service with ai_service.AIService constructed as ai_service.
LegacyInit ==
    /\ provider = "legacy"
    /\ env = [AI_PROVIDER |-> "gemini", key |-> TRUE]
    /\ proc = "running"
    /\ instances = 1
    /\ other = NoHandler
    /\ NEWS_API_KEY = TRUE
    /\ Idle

LegacyNext ==
    \/ legacy_StartExtract
    \/ legacy_extract_trade_from_text
    \/ legacy_extract_sleep
    \/ legacy_StartProcessChat
    \/ legacy_generate_chat_response
    \/ legacy_chat_sleep
    \/ legacy_process_chat_extract
    \/ Return

LegacySpec == LegacyInit /\ [][LegacyNext]_vars

\* fetch_stock_news called directly, with and without the news key.
NewsInit ==
    /\ provider \in ToolAdapters
    /\ env = [AI_PROVIDER |-> provider, key |-> TRUE]
    /\ proc = "running"
    /\ instances = 1
    /\ other = NoHandler
    /\ NEWS_API_KEY \in BOOLEAN
    /\ Idle

NewsNext ==
    \/ fetch_stock_news
    \/ fetch_stock_news_get
    \/ fetch_stock_news_return

NewsSpec == NewsInit /\ [][NewsNext]_vars

-----------------------------------------------------------------------------
(* C21 .. C30.                                                              *)

\* C22 as stated: with an unrecognized AI_PROVIDER value the process does not
\* stop: startup completes with the stub adapter installed, so that health
\* and every adapter operation can be served.
C22_InvalidProviderStartsStub ==
    (AI_PROVIDER(env) \notin Providers /\ proc # "starting")
        => (proc = "running" /\ provider = "PlaceholderService" /\ instances = 1)

\* C23 as stated: each supported AI_PROVIDER value (gemini, groq, grok;
\* gemini when unset) resolves at startup to its adapter class, of which
\* exactly one instance is constructed, and no request handler replaces or
\* reconstructs it afterwards.
C23_OneAdapterPerValue ==
    (AI_PROVIDER(env) \in Providers /\ env.key /\ proc # "starting")
        => (proc = "running" /\ provider = AI_PROVIDER(env) /\ instances = 1)

\* C24: when the key of the selected provider is missing, the adapter is
\* never constructed and the process never runs: the constructor raises and
\* the process exits before the application exists, so no request, health
\* included, is ever served.
C24_MissingCredentialFatal ==
    ~env.key
        => /\ proc # "running"
           /\ instances = 0
           /\ op = "none" /\ pc = "idle" /\ response = NoResponse
           /\ (proc # "starting" /\ AIService(env) \in Providers) => proc = "exited"

\* GROQ_API_KEY is missing and the process has exited.
C24_Witness ==
    /\ AI_PROVIDER(env) = "groq" /\ ~env.key
    /\ proc = "exited"
    /\ instances = 0

\* The title completion raised, gave no JSON, gave JSON without a title key,
\* or gave a title that is not a string.
TitleFailed ==
    LET r == Calls("title")[1] IN
    /\ Len(Calls("title")) = 1
    /\ \/ r.k = "raise"
       \/ ~JsonLoads(provider, r)
       \/ r.body.j # "object"
       \/ r.body.title \in {Absent, JsonNull, Bad}

\* C21 as stated: generate_title_for_chat uses only the last 5 messages and,
\* for every upstream failure (the call raises, text that is not JSON, JSON
\* without a title key, a title that is not a string), the adapter and the
\* /ai/generate-title endpoint yield the string "New Chat", never an error
\* and never a null title.
C21_TitleNeverErrors ==
    (op = "title" /\ pc = "done")
        => /\ messages = Last(request, TITLE_WINDOW)
           /\ response.status = 200
           /\ TitleFailed
                => /\ result = Title("New Chat")
                   /\ response = [status |-> 200, title |-> "New Chat"]

\* C25 as stated: for every combination of upstream failures during chat
\* generation, classification and extraction, /ai/process-chat returns a
\* success-shaped response whose message is a substantive answer or one of
\* the fallback strings, never an HTTP 500.
C25_ProcessChatNeverErrors ==
    (op = "process" /\ pc = "done")
        => /\ response.status = 200
           /\ NonEmptyString(response.message)

\* C26 as stated: for one process-chat request generate_chat_response and
\* extract_trade_from_text are both invoked with the same user message,
\* extraction whatever the chat outcome was; both have returned before the
\* response, which carries exactly the chat result's message and is_grounded
\* and the extractor's value as trade_extracted.
C26_ProcessChatCombines ==
    (op = "process" /\ pc = "done")
        => /\ invoked = <<Invocation("generate_chat_response", user_message),
                          Invocation("extract_trade_from_text", user_message)>>
           /\ chat_result.kind = "chat"
           /\ result.kind \in {"null", "trade"}
           /\ response = [status |-> 200, message |-> chat_result.message,
                          is_grounded |-> chat_result.is_grounded,
                          trade_extracted |-> result]

\* generate_chat_response is being served, by itself or for process_chat.
InChat == op \in {"chat", "process"} /\ pc \in {"chat", "chat_sleep", "news", "chat_final"}

\* The turns handed to the model after the system instruction, which the
\* Groq and Grok adapters pass as the first turn.
Forwarded == IF provider = "gemini" THEN messages ELSE Tail(messages)

\* C27: the turns forwarded to the model are the last min(6, n) messages of
\* the supplied history in their order, then the current user message, which
\* is the final turn of the first completion; the trades put into the prompt
\* are the last 15 (Gemini, Groq) or 20 (Grok) of the trade history; the
\* caller's lists are as they were given.
C27_ContextWindowing ==
    InChat
        => LET n == Len(request)
               k == Min(CHAT_WINDOW, n)
           IN  /\ Len(Forwarded) >= k + 1
               /\ \A i \in 1..k :
                     /\ Forwarded[i].hist = n - k + i
                     /\ Forwarded[i].role
                          = IF provider = "gemini" /\ request[n - k + i].role = "assistant"
                            THEN "model" ELSE request[n - k + i].role
               /\ Forwarded[k + 1] = Turn("user", 0, 0, user_message)
               /\ pc \in {"chat", "chat_sleep"} => Len(Forwarded) = k + 1
               /\ context = Last(trade_history,
                                 IF provider = "grok" THEN GROK_CHAT_TRADES ELSE CHAT_TRADES)
               /\ Len(context) <= (IF provider = "grok" THEN GROK_CHAT_TRADES ELSE CHAT_TRADES)
               /\ request = [i \in 1..n |-> Message(i)]
               /\ trade_history = [i \in 1..Len(trade_history) |-> i]

\* A history longer than the window and a trade history longer than Grok's.
C27_Witness ==
    /\ InChat /\ provider = "grok" /\ pc = "chat"
    /\ Len(request) = CHAT_WINDOW + 1
    /\ Len(Forwarded) = CHAT_WINDOW + 1
    /\ Len(trade_history) > GROK_CHAT_TRADES
    /\ Len(context) = GROK_CHAT_TRADES
    /\ context[1] = Len(trade_history) - GROK_CHAT_TRADES + 1

\* The tool-result turns that answer tool call i.
TurnsFor(i) ==
    {j \in 1..Len(messages) : messages[j].role = "tool" /\ messages[j].id = i}

\* C28: in the Groq and Grok adapters, when the news lookup fails or the
\* arguments of a tool call are not JSON or hold no query, the call still gets
\* its tool-result turn, whose content describes the error, and the final
\* completion is still made, once; what it answers is what the method returns.
C28_ToolFailureDoesNotAbort ==
    ToolCallRequested
        => LET calls == Calls("chat")[1].tool_calls IN
           /\ \A i \in 1..Len(calls) :
                 calls[i].name = "fetch_stock_news"
                   => /\ Cardinality(TurnsFor(i)) = 1
                      /\ \A j \in TurnsFor(i) :
                            IF calls[i].args = "ok"
                            THEN messages[j].content \in NewsResults
                            ELSE messages[j].content = ToolError
           /\ Len(Calls("final")) = 1
           /\ Calls("final")[1].k = "reply"
                => result = ChatResult(Calls("final")[1].content, TRUE)

\* Arguments that are not JSON, then a lookup that returns an error, and the
\* final answer is returned.
C28_Witness ==
    /\ ToolCallRequested /\ provider = "groq"
    /\ Calls("chat")[1].tool_calls
         = <<[name |-> "fetch_stock_news", args |-> "invalid"],
             [name |-> "fetch_stock_news", args |-> "ok"]>>
    /\ ToolResults = <<ToolError, "{error}">>
    /\ result = ChatResult("Final", TRUE)

\* The value a finished chat request returns when it is the only request in
\* flight and the upstream gives it the outcomes in its log.
AloneResult ==
    IF provider = "gemini"
    THEN IF log[Len(log)].ev = "sleep"
         THEN ChatResult(FallbackMsg("gemini"), FALSE)
         ELSE gemini_chat_value(log[Len(log)].r)
    ELSE LET first == Calls("chat")[1] IN
         IF first.k = "raise" THEN ChatResult(FallbackMsg(provider), FALSE)
         ELSE IF first.tool_calls = << >> THEN ChatResult(first.content, FALSE)
         ELSE tool_final_value(provider, Calls("final")[1], messages)

\* The turns a chat request has built when it is the only request in flight.
AloneMessages ==
    BuildMessages(provider, request)
        \o (IF provider \in ToolAdapters /\ LookupReported
            THEN <<Turn("assistant", 0, 0, "tool_calls")>>
                     \o SubSeq(ExpectedToolTurns(Calls("chat")[1].tool_calls, 1,
                                                  Calls("news")),
                               1, Len(messages) - Len(BuildMessages(provider, request)) - 1)
            ELSE << >>)

\* C29: with two requests in flight on the one adapter instance, switched at
\* any await of an upstream call, a step of one handler leaves everything
\* the other handler holds as it was, and each request builds the turns and
\* returns the result it would with the same upstream outcomes alone.
C29_NoInterference ==
    /\ [](op = "chat"
            => /\ messages = AloneMessages
               /\ invoked = <<Invocation("generate_chat_response", user_message)>>
               /\ pc = "done" => result = AloneResult)
    /\ [][Switch \/ other' = other]_vars

\* Both requests are in the middle of generate_chat_response, with different
\* histories, and the suspended one has already been given tool calls.
C29_Witness ==
    /\ op = "chat" /\ other.op = "chat"
    /\ pc = "chat" /\ other.pc = "news"
    /\ Len(request) # Len(other.request)
    /\ other.tool_calls # << >>

\* The attempt that ended extract_trade_from_text failed: the upstream
\* raised, or the text it gave did not validate as a TradeCreate.
LegacyExtractFailed ==
    LET last == log[Len(log)].r IN
    \/ last.k = "raise"
    \/ gemini_validates(last) /\ ~model_validate_json("legacy", last).ok

\* C30: the legacy adapter's extract_trade_from_text makes at most 3 attempts
\* and retries only a service-unavailable error; when the third attempt is
\* service-unavailable too, or an attempt fails in any other way, the
\* exception leaves the method, and /ai/extract-trade and /ai/process-chat
\* answer HTTP 500, process-chat without the chat reply it already has.
C30_LegacyReRaises ==
    (provider = "legacy" /\ op \in {"extract", "process"} /\ pc = "done")
        => LET calls == Calls("extract") IN
           /\ Len(calls) \in 1..LEGACY_MAX_RETRIES
           /\ \A i \in 1..(Len(calls) - 1) : calls[i] = Raise("api503")
           /\ LegacyExtractFailed <=> result = Raised
           /\ result = Raised => response = http_500
           /\ (op = "process" /\ result = Raised) => chat_result.kind = "chat"

\* /ai/process-chat has a chat reply, the extraction is service-unavailable
\* three times, and the answer is HTTP 500.
C30_Witness ==
    /\ provider = "legacy" /\ op = "process" /\ pc = "done"
    /\ chat_result = ChatResult("Hi", TRUE)
    /\ Calls("extract") = <<Raise("api503"), Raise("api503"), Raise("api503")>>
    /\ Delays("extract") = <<1, 2>>
    /\ response = http_500

-----------------------------------------------------------------------------
(* C31 .. C35.                                                              *)

\* The ids of the tool-result turns handed to the model, in order.
ToolResultIds ==
    LET sel == SelectSeq(messages, LAMBDA m : m.role = "tool")
    IN  [i \in 1..Len(sel) |-> sel[i].id]

\* C31 as stated: in the Groq and Grok adapters, before the final completion
\* the turns hold exactly one tool-result turn for every tool call of the
\* first completion, with that call's id, in the order of the calls, whatever
\* tool the call names.
C31_ToolResultForEveryCall ==
    (provider \in ToolAdapters /\ op \in {"chat", "process"}
       /\ pc = "chat_final")
        => ToolResultIds = [i \in 1..Len(tool_calls) |-> i]

\* A completion text that is valid JSON for a complete TradeCreate.
WellFormedRecord(r) ==
    /\ ~r.fenced
    /\ r.body.j = "object"
    /\ \A k \in Required : r.body.f[k] \notin {Absent, JsonNull, Bad}
    /\ \A k \in Optional : r.body.f[k] # Bad

\* C32 as stated: in every adapter, when the classifier returns LOG_TRADE and
\* the extraction completion is valid JSON for a complete TradeCreate,
\* optional fields that are null and notes that hold the words null or error
\* included, extract_trade_from_text returns that record and not null.
C32_WellFormedRecordReturned ==
    (ExtractReplied /\ intent = "LOG_TRADE" /\ WellFormedRecord(ExtractReply))
        => /\ result.kind = "trade"
           /\ \A k \in TradeFields :
                 result.rec[k] = IF ExtractReply.body.f[k] = Absent
                                 THEN JsonNull ELSE ExtractReply.body.f[k]

\* C33: an adapter operation that has started ends, given that every
\* upstream call returns or raises; in the Gemini adapter
\* extract_trade_from_text makes at most 2 classification calls and 3
\* extraction calls with at most 3 delays in all, and generate_chat_response
\* at most 3 calls with at most 2 delays.
C33_OperationsTerminate ==
    /\ [](provider = "gemini"
            => /\ Len(Calls("classify")) <= CLASSIFY_MAX_RETRIES
               /\ Len(Calls("extract")) <= EXTRACT_MAX_RETRIES
               /\ Len(Delays("classify")) + Len(Delays("extract"))
                     <= (CLASSIFY_MAX_RETRIES - 1) + (EXTRACT_MAX_RETRIES - 1)
               /\ Len(Calls("chat")) <= CHAT_MAX_RETRIES
               /\ Len(Delays("chat")) <= CHAT_MAX_RETRIES - 1)
    /\ (pc # "idle") ~> (pc = "done")

\* The Gemini extraction that uses every call and every delay it may.
C33_Witness ==
    /\ provider = "gemini" /\ op = "extract" /\ pc = "done"
    /\ Len(Calls("classify")) = CLASSIFY_MAX_RETRIES
    /\ Len(Calls("extract")) = EXTRACT_MAX_RETRIES
    /\ Len(Delays("classify")) + Len(Delays("extract")) = 3

\* C34: whatever the HTTP call gives (a status that is not 2xx, a timeout,
\* a body that is not JSON, an object without status or articles, an empty
\* list of articles), fetch_stock_news returns an articles payload or an
\* error payload and raises nothing; without the news key it returns the
\* key-missing payload and makes no HTTP call.
C34_FetchStockNewsTotal ==
    news_call.pc = "returned"
        => /\ \/ DOMAIN news_call.value = {"articles"} /\ news_call.value.articles > 0
              \/ "error" \in DOMAIN news_call.value
           /\ news_call.value # NewsRaised
           /\ IF NEWS_API_KEY
              THEN news_call.gets = 1 /\ news_call.value # KeyMissing
              ELSE news_call.gets = 0 /\ news_call.value = KeyMissing

\* An answer with status ok whose only article has a null source.
C34_Witness ==
    /\ news_call.pc = "returned" /\ NEWS_API_KEY
    /\ news_call.http = [k |-> "response", code |-> 200,
                    body |-> [j |-> "object", status |-> "ok",
                              articles |-> [has |-> "list",
                                            items |-> <<"null_source">>]]]
    /\ news_call.value = InternalError

\* C35: analyze_trades called with an empty list of trades returns its
\* no-trades result, whose insights are empty, and calls the model not at
\* all; with any other list it calls the model.
C35_EmptyListNoCall ==
    op = "analyze"
        => IF request = << >>
           THEN /\ pc = "done"
                /\ log = << >>
                /\ messages = << >>
                /\ result.json.summary
                     = (IF provider = "groq" THEN "No trades." ELSE "No trades to analyze.")
                /\ result.json.insights = "[]"
           ELSE pc = "done" => Len(Calls("analyze")) = 1

\* The Groq adapter has answered an empty list.
C35_Witness ==
    /\ op = "analyze" /\ provider = "groq" /\ pc = "done"
    /\ request = << >>
    /\ result.json.summary = "No trades."

====
